---- MODULE Spec2Model ----
(***************************************************************************)
(* Stripe -> BigCommerce webhook (api/stripe-webhook.js, final revision,   *)
(* lines 188-495): one delivery is a handler invocation that runs from one *)
(* await to the next.  The BigCommerce customer directory is the only      *)
(* durable state; Stripe resources are read-only.                          *)
(*                                                                         *)
(* Strings that the code normalises (emails, names) are sequences of       *)
(* one-symbol strings, so trim / toLowerCase / split are computed.         *)
(* JavaScript null is Null for numbers and the empty sequence for strings  *)
(* (the code only ever tests these values for truthiness).                 *)
(***************************************************************************)
EXTENDS Integers, Sequences, FiniteSets, TLC

\* ------------------------------------------------------------- bounds
MaxDeliveries == 2          \* deliveries (redeliveries) of the event
MaxItems == 1               \* line items of a session / invoice
MaxFailing == 1             \* deliveries during which the platform may fail
MaxCats == 3                 \* categories of a POST
MaxNameLen == 6              \* symbols of a display name

\* ------------------------------------------------------------- settings
NO_GROUP == 0
REMOVE_ON_PAYMENT_FAILED == TRUE
STRIPE_WEBHOOK_SECRET == "whsec"

Null == 0 - 1
Procs == {1, 2}

Range(s) == {s[i] : i \in 1..Len(s)}

\* JS truthiness of a number-or-null and of a string-or-null
Truthy(n) == n /= Null /\ n /= 0
NonEmpty(s) == Len(s) > 0
\* JS  a || b  on strings
OrElse(a, b) == IF NonEmpty(a) THEN a ELSE b

\* ------------------------------------------------------------- strings
\* the whitespace of \s and of trim(): a blank, a tab or a line feed
IsSpace(c) == c \in {" ", "\t", "\n"}

LowerChar(c) ==
  CASE c = "A" -> "a"
    [] c = "B" -> "b"
    [] c = "C" -> "c"
    [] OTHER -> c

ToLower(s) == [i \in 1..Len(s) |-> LowerChar(s[i])]

RECURSIVE TrimLeft(_)
TrimLeft(s) == IF Len(s) > 0 /\ IsSpace(s[1]) THEN TrimLeft(Tail(s)) ELSE s

RECURSIVE TrimRight(_)
TrimRight(s) ==
  IF Len(s) > 0 /\ IsSpace(s[Len(s)]) THEN TrimRight(SubSeq(s, 1, Len(s) - 1)) ELSE s

Trim(s) == TrimRight(TrimLeft(s))

\* (email || '').trim().toLowerCase()
NormalizeEmail(email) == ToLower(Trim(email))

\* index of the first whitespace symbol of s at or after i, Len(s)+1 if none
RECURSIVE NextSpace(_, _)
NextSpace(s, i) == IF i > Len(s) \/ IsSpace(s[i]) THEN i ELSE NextSpace(s, i + 1)

\* s.trim().split(/\s+/).filter(Boolean)
RECURSIVE Tokens(_)
Tokens(s) ==
  LET t == TrimLeft(s) IN
  IF Len(t) = 0 THEN <<>>
  ELSE LET k == NextSpace(t, 1) IN
       <<SubSeq(t, 1, k - 1)>> \o Tokens(SubSeq(t, k, Len(t)))

\* parts.join(' ')
RECURSIVE JoinSpace(_)
JoinSpace(parts) ==
  IF Len(parts) = 0 THEN <<>>
  ELSE IF Len(parts) = 1 THEN parts[1]
  ELSE parts[1] \o <<" ">> \o JoinSpace(Tail(parts))

FirstName(fullName) ==
  LET parts == Tokens(fullName) IN
  IF Len(parts) > 0 THEN parts[1] ELSE <<"Member">>

\* slip: the remainder is sent as it is, empty when the name has one token
LastName_NoPlaceholder(fullName) ==
  LET parts == Tokens(fullName) IN
  IF Len(parts) > 1 THEN JoinSpace(Tail(parts)) ELSE <<>>

LastName(fullName) ==
  LET parts == Tokens(fullName) IN
  IF Len(parts) > 1 THEN JoinSpace(Tail(parts)) ELSE <<"Account">>

\* ------------------------------------------------------------- signature
\* The provider's HMAC over the raw body, abstracted as an injective pairing.
Sign(payload, secret) == [payload |-> payload, secret |-> secret]

\* slip: the signature is compared with the body only, whatever the secret
ConstructEventOk_AnySecret(rawBody, sig, secret) ==
  /\ Len(sig) > 0
  /\ sig[1].payload = rawBody

\* stripe.webhooks.constructEvent: a header is a sequence, empty when missing
ConstructEventOk(rawBody, sig, secret) ==
  /\ Len(sig) > 0
  /\ sig[1] = Sign(rawBody, secret)

\* ------------------------------------------------------------- tier resolver
\* a price id is a string, "" when the field is absent (falsy)
HasPid(pid) == pid /= ""

MapHas(map, pid) == pid \in DOMAIN map
\* map[pid], undefined (falsy) when pid is no key
MapGet(map, pid) == IF MapHas(map, pid) THEN map[pid] ELSE Null

RECURSIVE priceToGroupId(_, _)
priceToGroupId(priceIds, map) ==
  IF Len(priceIds) = 0 THEN Null
  ELSE IF HasPid(priceIds[1]) /\ Truthy(MapGet(map, priceIds[1]))
       THEN MapGet(map, priceIds[1])
       ELSE priceToGroupId(Tail(priceIds), map)

\* Set.add on an insertion-ordered set
SetAdd(found, pid) == IF pid \in Range(found) THEN found ELSE Append(found, pid)

\* one line item: pidNew first, then pidOld
CollectItem(found, li) ==
  LET f1 == IF HasPid(li.pidNew) THEN SetAdd(found, li.pidNew) ELSE found
  IN  IF HasPid(li.pidOld) THEN SetAdd(f1, li.pidOld) ELSE f1

RECURSIVE CollectItems(_, _)
CollectItems(found, items) ==
  IF Len(items) = 0 THEN found
  ELSE CollectItems(CollectItem(found, items[1]), Tail(items))

\* ------------------------------------------------------------- inputs
EmailA == <<"A">>                \* transaction-time email, mixed case
EmailB == <<"b">>                \* stored customer_email
EmailC == <<" ", "c">>           \* email of the Stripe customer resource
NameAL == <<"A", " ", "L">>
NameB == <<"B">>

\* a line item carries the new path (pricing.price_details.price) and the old
\* path (price.id), or the old path alone; "" is an absent field
LineItems == {[pidNew |-> "p2", pidOld |-> "p1"], [pidNew |-> "", pidOld |-> "p1"]}
ItemSeqs == UNION {[1..k -> LineItems] : k \in 0..MaxItems}

\* PRICE_TO_GROUP_MAP: every price mapped, or one price mapped to a falsy 0
Maps == { ("p1" :> 2) @@ ("p2" :> 3), ("p1" :> 2) @@ ("p2" :> 0) }

EmptyObj ==
  [detailsEmail |-> <<>>, customerEmail |-> <<>>, detailsName |-> <<>>,
   customer |-> FALSE, items |-> <<>>]

\* checkout session (as retrieved) or invoice (event.data.object);
\* customer_details is absent or carries both email and name
PurchaseObjs ==
  {[detailsEmail |-> cd[1], detailsName |-> cd[2], customerEmail |-> ce,
    customer |-> c, items |-> it] :
      cd \in {<<<<>>, <<>>>>, <<EmailA, NameAL>>}, ce \in {<<>>, EmailB},
      c \in BOOLEAN, it \in ItemSeqs}

\* subscription: only .customer is read
SubscriptionObj == [EmptyObj EXCEPT !.customer = TRUE]

CHECKOUT == "checkout.session.completed"
INVOICE_PAID == "invoice.payment_succeeded"
INVOICE_FAILED == "invoice.payment_failed"
SUB_DELETED == "customer.subscription.deleted"
OTHER_KIND == "charge.refunded"

Bodies ==
  [type : {CHECKOUT, INVOICE_PAID, INVOICE_FAILED}, obj : PurchaseObjs]
  \cup {[type |-> SUB_DELETED, obj |-> SubscriptionObj],
        [type |-> OTHER_KIND, obj |-> EmptyObj]}

TamperedBody == [type |-> "tampered", obj |-> EmptyObj]
ProbeBody == [type |-> CHECKOUT, obj |-> [EmptyObj EXCEPT !.detailsEmail = EmailA]]

\* signed deliveries, and the three ways a signature fails, and a non-POST
Requests ==
  {[method |-> "POST", body |-> b, sig |-> <<Sign(b, STRIPE_WEBHOOK_SECRET)>>] :
      b \in Bodies}
  \cup {[method |-> "POST", body |-> ProbeBody, sig |-> sg] :
      sg \in {<<>>, <<Sign(ProbeBody, "other")>>,
              <<Sign(TamperedBody, STRIPE_WEBHOOK_SECRET)>>}}
  \cup {[method |-> "GET", body |-> ProbeBody,
         sig |-> <<Sign(ProbeBody, STRIPE_WEBHOOK_SECRET)>>]}

\* Stripe customer resource
CustResources == {[email |-> <<>>, name |-> <<>>], [email |-> EmailC, name |-> NameB]}

Customer(id, email, group, first, last) ==
  [id |-> id, email |-> email, group |-> group, first |-> first, last |-> last]

\* directory contents before the first delivery
InitDirs ==
  { <<>>,
    <<Customer(1, <<"A">>, 2, <<"A">>, <<"L">>)>>,
    <<Customer(1, <<"b">>, 3, <<"B">>, <<"K">>),
      Customer(2, <<"c">>, 2, <<"C">>, <<"M">>)>> }

\* ------------------------------------------------------------- media relay
\* src/api/stream.js: GET /api/stream?u=<url>&exp=<unix seconds>&sig=<hex>
NaN == 0 - 999                \* parseInt of a text that starts with no digit

\* a query or environment value: absent (or empty), a decimal number, or
\* some other text
Absent == [present |-> FALSE, num |-> FALSE, val |-> 0]
Number(n) == [present |-> TRUE, num |-> TRUE, val |-> n]
Text == [present |-> TRUE, num |-> FALSE, val |-> 0]

\* parseInt(q || dflt, 10)
ParseInt(q, dflt) == IF ~q.present THEN dflt ELSE IF q.num THEN q.val ELSE NaN

\* crypto.createHmac('sha256', key).update(str).digest('hex'), abstracted as
\* an injective pairing
HexHmac(str, key) == [str |-> str, key |-> key]

\* process.env.TOKEN_SECRET || 'change-me'
TokenKey(secret) == IF secret = "" THEN "change-me" ELSE secret

\* if (!sig) sig = hmac(base)
DeriveSig(sig, base, key) == IF sig = <<>> THEN <<HexHmac(base, key)>> ELSE sig

\* decodeURIComponent on the symbols of u: "%31" stands for an escaped "1";
\* a lone "%" is malformed and makes the call throw
Malformed(u) == \E i \in 1..Len(u) : u[i] = "%"
DecodeChar(c) == IF c = "%31" THEN "1" ELSE c
DecodeURIComponent(u) == [i \in 1..Len(u) |-> DecodeChar(u[i])]

Url1 == <<"h", "1">>
Url2 == <<"h", "2">>
UrlQueries == {<<>>, Url1, Url2, <<"h", "%31">>, <<"h", "%">>}

SITE_ORIGIN == "https://store"
RelayEnvs ==
  [origin : {"", SITE_ORIGIN}, secret : {"", "k"}, maxMin : {Absent, Number(1), Text}]

RelayNow == 1000
\* exp: absent, not a number, zero, past, now, and both sides of the
\* windows of 1 and of 70 minutes
ExpQueries ==
  {Absent, Text} \cup
  {Number(n) : n \in {0, RelayNow - 1, RelayNow, RelayNow + 90, RelayNow + 91,
                      RelayNow + 4230, RelayNow + 4231}}

\* sig: none, the HMAC of this request's base under the configured key, under
\* the default key, under a foreign key, or the HMAC of another URL's base
SigQueries(u, exp, key) ==
  {<<>>, <<HexHmac(<<u, exp>>, key)>>, <<HexHmac(<<u, exp>>, "change-me")>>,
   <<HexHmac(<<u, exp>>, "guess")>>, <<HexHmac(<<Url2, exp>>, key)>>}

RelayRequests(e) ==
  UNION {{[method |-> m, origin |-> o, u |-> u, exp |-> x, sig |-> sg] :
            m \in {"GET", "POST"}, o \in {"", SITE_ORIGIN, "https://other"},
            sg \in SigQueries(IF Malformed(u) THEN u ELSE DecodeURIComponent(u),
                              ParseInt(x, 0), TokenKey(e.secret))} :
         u \in UrlQueries, x \in ExpQueries}

NoRelayRequest == [method |-> "", origin |-> "", u |-> <<>>, exp |-> Absent, sig |-> <<>>]
NoRelayEnv == [origin |-> "", secret |-> "", maxMin |-> Absent]

IdleRelay ==
  [pc |-> "idle", e |-> NoRelayEnv, req |-> NoRelayRequest, now |-> 0,
   status |-> 0, error |-> "", fetched |-> <<>>, left |-> 0, written |-> 0,
   ended |-> FALSE]

\* ------------------------------------------------------------- categories
\* src/api/categories.js: the selection is kept in the customer's notes under
\* a tagged segment.  The tag's name is one symbol.
TAG_START == <<"[", "[", "BWE_CATEGORIES", ":">>
TAG_END == <<"]", "]">>

\* s.indexOf(pat, from), positions counted from 1 and 0 for "not found"
RECURSIVE IndexOf(_, _, _)
IndexOf(s, pat, from) ==
  IF from + Len(pat) - 1 > Len(s) THEN 0
  ELSE IF SubSeq(s, from, from + Len(pat) - 1) = pat THEN from
  ELSE IndexOf(s, pat, from + 1)

\* s.split(',')
RECURSIVE SplitComma(_)
SplitComma(s) ==
  LET k == IndexOf(s, <<",">>, 1) IN
  IF k = 0 THEN <<s>>
  ELSE <<SubSeq(s, 1, k - 1)>> \o SplitComma(SubSeq(s, k + 1, Len(s)))

\* cats.join(',')
RECURSIVE JoinComma(_)
JoinComma(cats) ==
  IF Len(cats) = 0 THEN <<>>
  ELSE IF Len(cats) = 1 THEN cats[1]
  ELSE cats[1] \o <<",">> \o JoinComma(Tail(cats))

TrimEach(list) == [i \in 1..Len(list) |-> Trim(list[i])]

extractCatsFromNotes(notes) ==
  LET i == IndexOf(notes, TAG_START, 1) IN
  IF i = 0 THEN <<>>
  ELSE LET j == IndexOf(notes, TAG_END, i + Len(TAG_START)) IN
       IF j = 0 THEN <<>>
       ELSE LET raw == Trim(SubSeq(notes, i + Len(TAG_START), j - 1)) IN
            IF raw = <<>> THEN <<>>
            ELSE SelectSeq(TrimEach(SplitComma(raw)), NonEmpty)

\* (s ? s + '\n' : '') + tag
AppendTag(s, tag) == (IF NonEmpty(s) THEN s \o <<"\n">> ELSE <<>>) \o tag

setCatsInNotes(prevNotes, cats) ==
  LET tag == TAG_START \o JoinComma(cats) \o TAG_END
      i == IndexOf(prevNotes, TAG_START, 1)
  IN  IF i = 0 THEN AppendTag(prevNotes, tag)
      ELSE LET j == IndexOf(prevNotes, TAG_END, i + Len(TAG_START)) IN
           IF j = 0 THEN AppendTag(prevNotes, tag)
           ELSE SubSeq(prevNotes, 1, i - 1) \o tag
                  \o SubSeq(prevNotes, j + Len(TAG_END), Len(prevNotes))

GROUP_LIMITS == (2 :> 2) @@ (3 :> 3) @@ (4 :> 4)

\* GROUP_LIMITS[Number(groupId)] || 2
limitForGroup(groupId) ==
  IF groupId \in DOMAIN GROUP_LIMITS THEN GROUP_LIMITS[groupId] ELSE 2

\* cats.map(c => String(c || '').trim().toLowerCase()).filter(Boolean)
NormalizeCats(cats) ==
  SelectSeq([i \in 1..Len(cats) |-> ToLower(Trim(cats[i]))], NonEmpty)

\* Array.from(new Set(cats)): first occurrences, in order
RECURSIVE Unique(_)
Unique(cats) ==
  IF Len(cats) = 0 THEN <<>>
  ELSE LET front == Unique(SubSeq(cats, 1, Len(cats) - 1))
           last == cats[Len(cats)]
       IN  IF last \in Range(front) THEN front ELSE Append(front, last)

\* category texts a client may send, and lists of at most MaxCats of them
CatTexts ==
  {<<"a">>, <<"A">>, <<" ", "b">>, <<"c">>, <<>>, <<"a", ",", "c">>, <<"b", "]">>}
CatLists == UNION {[1..k -> CatTexts] : k \in 0..MaxCats}

\* notes on file: none, free text, a tagged segment alone or inside text, a
\* tag that was never closed
NoteTexts ==
  {<<>>, <<"n">>, TAG_START \o <<"a", ",", "b">> \o TAG_END,
   <<"n", "\n">> \o TAG_START \o <<"c">> \o TAG_END \o <<"m">>,
   <<"n">> \o TAG_START \o <<"c">>}

\* the platform's record of the customer the endpoint is asked about
NoStore == [exists |-> FALSE, group |-> 0, notes |-> <<>>]
Stores ==
  {NoStore} \cup [exists : {TRUE}, group : {0, 2, 3, 5}, notes : NoteTexts]

CatRequests ==
  {[method |-> m, email |-> e, categories |-> <<>>] :
      m \in {"GET", "PUT"}, e \in {<<>>, EmailC}}
  \cup {[method |-> "POST", email |-> e, categories |-> c] :
      e \in {<<>>, <<" ">>, EmailC}, c \in CatLists}

NoCatRequest == [method |-> "", email |-> <<>>, categories |-> <<>>]
NoCust == [found |-> FALSE, group |-> 0, notes |-> <<>>]
NoAnswer == [ok |-> FALSE, categories |-> <<>>, groupId |-> 0, limit |-> 0]

IdleCat(store) ==
  [pc |-> "idle", store |-> store, req |-> NoCatRequest, id |-> Null,
   cust |-> NoCust, unique |-> <<>>, newNotes |-> <<>>, status |-> 0,
   answer |-> NoAnswer, calls |-> <<>>]

\* ------------------------------------------------------------- state
VARIABLES
  dir,          \* BigCommerce customers, in the platform's order
  env,          \* PRICE_TO_GROUP_MAP
  stripeCust,   \* the Stripe customer resource the event refers to
  queue,        \* per handler instance: the deliveries still to arrive
  dl,           \* per handler instance: the locals of the running delivery
  relay,        \* the media relay: the locals of its running request
  cat           \* the categories endpoint: its customer and its request's locals

vars == <<dir, env, stripeCust, queue, dl, relay, cat>>

NoBody == [ok |-> FALSE, ignored |-> "", text |-> FALSE]
OkBody == [ok |-> TRUE, ignored |-> "", text |-> FALSE]
IgnoredBody(type) == [ok |-> TRUE, ignored |-> type, text |-> FALSE]
ErrorBody == [ok |-> FALSE, ignored |-> "", text |-> FALSE]
TextBody == [ok |-> FALSE, ignored |-> "", text |-> TRUE]

NoRequest == [method |-> "", body |-> TamperedBody, sig |-> <<>>]

IdleDelivery ==
  [pc |-> "idle", n |-> 0, req |-> NoRequest, type |-> "",
   email |-> <<>>, custEmail |-> <<>>, fullName |-> <<>>, found |-> <<>>,
   target |-> Null, bcId |-> Null, applied |-> FALSE, setTo |-> Null,
   status |-> 0, body |-> NoBody, sent |-> 0, calls |-> <<>>,
   before |-> <<>>, prevGood |-> FALSE]

Init ==
  /\ dir \in InitDirs
  /\ env \in Maps
  /\ stripeCust \in CustResources
  /\ \E r \in Requests :
       queue = [p \in Procs |-> IF p = 1 THEN [i \in 1..MaxDeliveries |-> r] ELSE <<>>]
  /\ dl = [p \in Procs |-> IdleDelivery]
  /\ relay = IdleRelay
  /\ cat = IdleCat(NoStore)

\* ------------------------------------------------------------- platform
\* The commerce platform, as seen through its REST API.  A 2xx answer means
\* the request took effect; any other answer leaves the directory alone.
IsOk(status) == status \in 200..299

EmailMatches(r, normalized) == ToLower(r.email) = normalized

\* The records a successful lookup returns: the exact matches, or (shape
\* "near") those and near-matches.
LookupShapes == {"exact", "near"}
PlatformLookup(d, normalized, shape) ==
  IF shape = "exact" THEN SelectSeq(d, LAMBDA r : EmailMatches(r, normalized))
  ELSE d

PlatformCreate(d, email, first, last, group) ==
  Append(d, Customer(Len(d) + 1, email, IF Truthy(group) THEN group ELSE NO_GROUP,
                     first, last))

\* slip: the group is left out of the v3 create payload
V3CreateGroup_Omitted(groupId) == Null

\* ...(groupId ? { customer_group_id: Number(groupId) } : {}) of the v3 payload
V3CreateGroup(groupId) == IF Truthy(groupId) THEN groupId ELSE Null

\* slip: clearing the entitlement deletes the customer record
PlatformSetGroup_Delete(d, id, group) ==
  IF group = NO_GROUP THEN SelectSeq(d, LAMBDA r : r.id # id)
  ELSE [i \in 1..Len(d) |-> IF d[i].id = id THEN [d[i] EXCEPT !.group = group] ELSE d[i]]

PlatformSetGroup(d, id, group) ==
  [i \in 1..Len(d) |-> IF d[i].id = id THEN [d[i] EXCEPT !.group = group] ELSE d[i]]

\* slip: the first returned record is taken without looking at its email
FindId_First(list, normalized) ==
  IF Len(list) = 0 THEN Null
  ELSE IF Truthy(list[1].id) THEN list[1].id ELSE Null

\* data.find(r => (r?.email || '').toLowerCase() === normalized)?.id || null
RECURSIVE FindId(_, _)
FindId(list, normalized) ==
  IF Len(list) = 0 THEN Null
  ELSE IF ToLower(list[1].email) = normalized
       THEN (IF Truthy(list[1].id) THEN list[1].id ELSE Null)
       ELSE FindId(Tail(list), normalized)

\* ------------------------------------------------------------- locals
\* one upstream call and its answer: good is a 2xx answer with a usable body,
\* array is a body that mentions "array", near is a lookup result that holds
\* a record of another email
Call(name, status, good, array) ==
  [call |-> name, status |-> status, good |-> good, array |-> array, near |-> FALSE]
Logged(d, name, status, good) ==
  [d EXCEPT !.calls = Append(@, Call(name, status, good, FALSE))]
LoggedLookup(d, name, status, list, normalized) ==
  [d EXCEPT !.calls =
     Append(@, [Call(name, status, IsOk(status), FALSE) EXCEPT
                  !.near = /\ IsOk(status)
                           /\ \E i \in 1..Len(list) : ~EmailMatches(list[i], normalized)])]
LoggedPatch(d, status, array) ==
  [d EXCEPT !.calls = Append(@, Call("patch", status, IsOk(status), array))]

Respond(d, status, body) ==
  [d EXCEPT !.pc = "done", !.status = status, !.body = body, !.sent = @ + 1]

AllGood(calls) == \A i \in 1..Len(calls) : calls[i].good

\* the email handed to lookupBcCustomerIdByEmail
LookupEmail(d) == IF d.type = SUB_DELETED THEN d.custEmail ELSE d.email

IsPurchase(type) == type \in {CHECKOUT, INVOICE_PAID}

\* const mustUseBulk = res.status === 422 || res.status === 404 || /array/i.test(txt)
MustUseBulk(status, txtArray) == status = 422 \/ status = 404 \/ txtArray

\* slip: the group is set whether or not the create applied it
AfterEnsure_IgnoresFlag(d) ==
  IF Truthy(d.target)
  THEN [d EXCEPT !.pc = "patch", !.setTo = d.target]
  ELSE Respond(d, 200, OkBody)

\* slip: the group update is issued when no group was resolved, and
\* Number(null) writes 0
AfterEnsure_AlwaysSets(d) ==
  IF ~d.applied
  THEN [d EXCEPT !.pc = "patch",
                 !.setTo = IF Truthy(d.target) THEN d.target ELSE NO_GROUP]
  ELSE Respond(d, 200, OkBody)

\* slip: the purchase writes the sentinel instead of the resolved group
AfterEnsure_WritesSentinel(d) ==
  IF Truthy(d.target) /\ ~d.applied
  THEN [d EXCEPT !.pc = "patch", !.setTo = NO_GROUP]
  ELSE Respond(d, 200, OkBody)

\* if (targetGroupId && !groupAppliedAtCreate) setBcCustomerGroup(...) ; 200
AfterEnsure(d) ==
  IF Truthy(d.target) /\ ~d.applied
  THEN [d EXCEPT !.pc = "patch", !.setTo = d.target]
  ELSE Respond(d, 200, OkBody)

\* slip: a purchase creates a customer whether or not the lookup found one
AfterLookup_AlwaysCreate(d, id) ==
  CASE d.type = SUB_DELETED ->
         IF ~Truthy(id) THEN Respond(d, 200, OkBody)
         ELSE [d EXCEPT !.bcId = id, !.pc = "patch", !.setTo = NO_GROUP]
    [] IsPurchase(d.type) ->
         [d EXCEPT !.bcId = Null, !.applied = FALSE, !.pc = "create_v3"]
    [] OTHER ->
         IF Truthy(id)
         THEN [d EXCEPT !.bcId = id, !.pc = "patch", !.setTo = NO_GROUP]
         ELSE Respond(d, 200, OkBody)

\* slip: a cancellation acknowledges without clearing the group
AfterLookup_NoRemoval(d, id) ==
  CASE d.type = SUB_DELETED -> Respond(d, 200, OkBody)
    [] IsPurchase(d.type) ->
         IF ~Truthy(id)
         THEN [d EXCEPT !.bcId = id, !.applied = FALSE, !.pc = "create_v3"]
         ELSE AfterEnsure([d EXCEPT !.bcId = id, !.applied = FALSE])
    [] OTHER ->
         IF Truthy(id)
         THEN [d EXCEPT !.bcId = id, !.pc = "patch", !.setTo = NO_GROUP]
         ELSE Respond(d, 200, OkBody)

\* the handler, from the return of lookupBcCustomerIdByEmail to its next await
\* slip: a removal whose lookup finds nobody goes on to create the customer
AfterLookup_RemovalUpserts(d, id) ==
  IF ~Truthy(id) /\ ~IsPurchase(d.type)
  THEN [d EXCEPT !.bcId = id, !.applied = FALSE, !.pc = "create_v3"]
  ELSE IF IsPurchase(d.type)
  THEN IF ~Truthy(id)
       THEN [d EXCEPT !.bcId = id, !.applied = FALSE, !.pc = "create_v3"]
       ELSE AfterEnsure([d EXCEPT !.bcId = id, !.applied = FALSE])
  ELSE [d EXCEPT !.bcId = id, !.pc = "patch", !.setTo = NO_GROUP]

AfterLookup(d, id) ==
  CASE d.type = SUB_DELETED ->
         IF ~Truthy(id) THEN Respond(d, 200, OkBody)
         ELSE [d EXCEPT !.bcId = id, !.pc = "patch", !.setTo = NO_GROUP]
    [] IsPurchase(d.type) ->
         IF ~Truthy(id)
         THEN [d EXCEPT !.bcId = id, !.applied = FALSE, !.pc = "create_v3"]
         ELSE AfterEnsure([d EXCEPT !.bcId = id, !.applied = FALSE])
    [] OTHER ->
         IF Truthy(id)
         THEN [d EXCEPT !.bcId = id, !.pc = "patch", !.setTo = NO_GROUP]
         ELSE Respond(d, 200, OkBody)

\* slip: the purchase branch goes on without an email
Route_NoEmailCheck(d) ==
  CASE d.type = SUB_DELETED -> [d EXCEPT !.pc = "subcustomer"]
    [] IsPurchase(d.type) ->
         [d EXCEPT !.target = priceToGroupId(d.found, env), !.pc = "lookup_v3"]
    [] d.type = INVOICE_FAILED /\ REMOVE_ON_PAYMENT_FAILED ->
         IF ~NonEmpty(d.email) THEN Respond(d, 200, OkBody)
         ELSE [d EXCEPT !.pc = "lookup_v3"]
    [] OTHER -> Respond(d, 200, OkBody)

\* slip: a failed payment is acknowledged as if the policy were switched off
Route_PolicyOff(d) ==
  CASE d.type = SUB_DELETED -> [d EXCEPT !.pc = "subcustomer"]
    [] IsPurchase(d.type) ->
         IF ~NonEmpty(d.email) THEN Respond(d, 200, OkBody)
         ELSE [d EXCEPT !.target = priceToGroupId(d.found, env), !.pc = "lookup_v3"]
    [] OTHER -> Respond(d, 200, OkBody)

\* the handler, from the end of email collection to its next await
Route(d) ==
  CASE d.type = SUB_DELETED -> [d EXCEPT !.pc = "subcustomer"]
    [] IsPurchase(d.type) ->
         IF ~NonEmpty(d.email) THEN Respond(d, 200, OkBody)
         ELSE [d EXCEPT !.target = priceToGroupId(d.found, env), !.pc = "lookup_v3"]
    [] d.type = INVOICE_FAILED /\ REMOVE_ON_PAYMENT_FAILED ->
         IF ~NonEmpty(d.email) THEN Respond(d, 200, OkBody)
         ELSE [d EXCEPT !.pc = "lookup_v3"]
    [] OTHER -> Respond(d, 200, OkBody)

\* slip: an unhandled kind falls through to the routing and its plain 200
Dispatch_NoIgnore(d, event) ==
  LET t == event.type
      o == event.obj
  IN
  CASE t = CHECKOUT -> [d EXCEPT !.type = t, !.pc = "session"]
    [] t \in {INVOICE_PAID, INVOICE_FAILED} ->
         LET d1 == [d EXCEPT !.type = t,
                             !.found = CollectItems(<<>>, o.items),
                             !.email = OrElse(o.customerEmail, o.detailsEmail)]
         IN  IF o.customer THEN [d1 EXCEPT !.pc = "customer"] ELSE Route(d1)
    [] OTHER -> Route([d EXCEPT !.type = t])

\* the handler, from the verified event to its first await
Dispatch(d, event) ==
  LET t == event.type
      o == event.obj
  IN
  CASE t = CHECKOUT -> [d EXCEPT !.type = t, !.pc = "session"]
    [] t \in {INVOICE_PAID, INVOICE_FAILED} ->
         LET d1 == [d EXCEPT !.type = t,
                             !.found = CollectItems(<<>>, o.items),
                             !.email = OrElse(o.customerEmail, o.detailsEmail)]
         IN  IF o.customer THEN [d1 EXCEPT !.pc = "customer"] ELSE Route(d1)
    [] t = SUB_DELETED -> Route([d EXCEPT !.type = t])
    [] OTHER -> Respond([d EXCEPT !.type = t], 200, IgnoredBody(t))

\* the handler, from the arrival of the request to its first await
Accept(d, req) ==
  IF req.method /= "POST" THEN Respond(d, 405, TextBody)
  ELSE IF ~ConstructEventOk(req.body, req.sig, STRIPE_WEBHOOK_SECRET)
       THEN Respond(d, 400, TextBody)
       ELSE Dispatch(d, req.body)

\* slip: the stored customer_email is preferred to customer_details.email
AfterSession_StoredFirst(d, ok) ==
  IF ok
  THEN LET s == d.req.body.obj
           d1 == [d EXCEPT !.found = CollectItems(<<>>, s.items),
                           !.email = OrElse(s.customerEmail, s.detailsEmail),
                           !.fullName = s.detailsName]
       IN  IF ~NonEmpty(d1.email) /\ s.customer
           THEN [d1 EXCEPT !.pc = "customer"]
           ELSE Route(d1)
  ELSE Route(d)

\* collectFromSession + the checkout branch, after sessions.retrieve settles
AfterSession(d, ok) ==
  IF ok
  THEN LET s == d.req.body.obj
           d1 == [d EXCEPT !.found = CollectItems(<<>>, s.items),
                           !.email = OrElse(s.detailsEmail, s.customerEmail),
                           !.fullName = s.detailsName]
       IN  IF ~NonEmpty(d1.email) /\ s.customer
           THEN [d1 EXCEPT !.pc = "customer"]
           ELSE Route(d1)
  ELSE Route(d)

\* slip: a failed customers.retrieve aborts the delivery
AfterCustomer_Abort(d, ok, c) ==
  IF ~ok THEN Respond(d, 500, ErrorBody)
  ELSE IF d.type = CHECKOUT
       THEN Route([d EXCEPT !.email = c.email, !.fullName = OrElse(@, c.name)])
       ELSE Route([d EXCEPT !.fullName = OrElse(@, c.name),
                            !.email = IF ~NonEmpty(@) THEN c.email ELSE @])

\* the checkout / invoice branch, after customers.retrieve settles
AfterCustomer(d, ok, c) ==
  IF ~ok THEN Route(d)
  ELSE IF d.type = CHECKOUT
       THEN Route([d EXCEPT !.email = c.email, !.fullName = OrElse(@, c.name)])
       ELSE Route([d EXCEPT !.fullName = OrElse(@, c.name),
                            !.email = IF ~NonEmpty(@) THEN c.email ELSE @])

\* slip: the skip answer of the subscription branch is not followed by return
AfterSubCustomer_NoReturn(d, ok, c) ==
  LET d1 == IF ok THEN [d EXCEPT !.custEmail = c.email, !.fullName = c.name] ELSE d
  IN  IF ~NonEmpty(d1.custEmail)
      THEN [Respond(d1, 200, OkBody) EXCEPT !.pc = "lookup_v3"]
      ELSE [d1 EXCEPT !.pc = "lookup_v3"]

\* the subscription branch, after customers.retrieve settles
AfterSubCustomer(d, ok, c) ==
  LET d1 == IF ok THEN [d EXCEPT !.custEmail = c.email, !.fullName = c.name] ELSE d
  IN  IF ~NonEmpty(d1.custEmail) THEN Respond(d1, 200, OkBody)
      ELSE [d1 EXCEPT !.pc = "lookup_v3"]

\* slip: a 404 of the v3 lookup is thrown to the handler
AfterLookupV3_NoFallback(d, status, list) ==
  IF status = 404 THEN Respond(d, 500, ErrorBody)
  ELSE IF ~IsOk(status) THEN [d EXCEPT !.pc = "lookup_v2"]
  ELSE AfterLookup(d, FindId(list, NormalizeEmail(LookupEmail(d))))

\* lookupBcCustomerIdByEmail, the v3 attempt: both throws land in its catch
AfterLookupV3(d, status, list) ==
  IF status = 404 THEN [d EXCEPT !.pc = "lookup_v2"]
  ELSE IF ~IsOk(status) THEN [d EXCEPT !.pc = "lookup_v2"]
  ELSE AfterLookup(d, FindId(list, NormalizeEmail(LookupEmail(d))))

\* slip: a failed v2 lookup counts as "no such customer"
AfterLookupV2_NotFound(d, status, list) ==
  IF ~IsOk(status) THEN AfterLookup(d, Null)
  ELSE AfterLookup(d, FindId(list, NormalizeEmail(LookupEmail(d))))

\* lookupBcCustomerIdByEmail, the v2 fallback
AfterLookupV2(d, status, list) ==
  IF ~IsOk(status) THEN Respond(d, 500, ErrorBody)
  ELSE AfterLookup(d, FindId(list, NormalizeEmail(LookupEmail(d))))

\* createBcCustomer, the v3 attempt; id is Null when the body carries none
AfterCreateV3(d, status, id) ==
  IF ~IsOk(status) THEN [d EXCEPT !.pc = "create_v2"]
  ELSE IF ~Truthy(id) THEN [d EXCEPT !.pc = "create_v2"]
  ELSE AfterEnsure([d EXCEPT !.bcId = id, !.applied = Truthy(d.target)])

\* slip: a v2 create answered without an id is taken as created
AfterCreateV2_NoIdCheck(d, status, id) ==
  IF ~IsOk(status) THEN Respond(d, 500, ErrorBody)
  ELSE AfterEnsure([d EXCEPT !.bcId = id, !.applied = FALSE])

\* slip: the v2 create reports the group as applied
AfterCreateV2_ReportsApplied(d, status, id) ==
  IF ~IsOk(status) THEN Respond(d, 500, ErrorBody)
  ELSE IF ~Truthy(id) THEN Respond(d, 500, ErrorBody)
  ELSE AfterEnsure([d EXCEPT !.bcId = id, !.applied = Truthy(d.target)])

\* createBcCustomer, the v2 fallback
AfterCreateV2(d, status, id) ==
  IF ~IsOk(status) THEN Respond(d, 500, ErrorBody)
  ELSE IF ~Truthy(id) THEN Respond(d, 500, ErrorBody)
  ELSE AfterEnsure([d EXCEPT !.bcId = id, !.applied = FALSE])

\* slip: the bulk PUT is issued whatever the PATCH answered
AfterPatch_AlwaysBulk(d, status, txtArray) == [d EXCEPT !.pc = "put"]

\* setBcCustomerGroup, the PATCH: the throw for a failure that is no bulk
\* signal is caught by the enclosing catch, which proceeds to the PUT
AfterPatch(d, status, txtArray) ==
  IF IsOk(status) THEN Respond(d, 200, OkBody)
  ELSE IF MustUseBulk(status, txtArray) THEN [d EXCEPT !.pc = "put"]
  ELSE [d EXCEPT !.pc = "put"]

\* slip: the failure of the bulk PUT is not thrown
AfterPut_Swallow(d, status) == Respond(d, 200, OkBody)

\* slip: a failed bulk PUT is tried once more
AfterPut_Retry(d, status) ==
  IF ~IsOk(status)
  THEN (IF Len(SelectSeq(d.calls, LAMBDA c : c.call = "put")) < 2
        THEN [d EXCEPT !.pc = "put"]
        ELSE Respond(d, 500, ErrorBody))
  ELSE Respond(d, 200, OkBody)

\* setBcCustomerGroup, the bulk PUT
AfterPut(d, status) ==
  IF ~IsOk(status) THEN Respond(d, 500, ErrorBody)
  ELSE Respond(d, 200, OkBody)

\* ------------------------------------------------------------- responses
PlatformCalls == {"lookup_v3", "lookup_v2", "create_v3", "create_v2", "patch", "put"}
StripeOutcomes == BOOLEAN
LookupV3Statuses == {200, 404, 500}
LookupV2Statuses == {200, 500}
CreateV3Statuses == {200, 422}
CreateV2Statuses == {200, 500}
\* PATCH answers: <<status, body mentions "array">>; an empty body mentions
\* nothing
PatchAnswers ==
  {<<200, FALSE>>, <<200, TRUE>>, <<404, FALSE>>, <<422, FALSE>>, <<500, TRUE>>,
   <<500, FALSE>>}
PutStatuses == {200, 500}

\* ------------------------------------------------------------- actions
HandleRequest(p) ==
  /\ dl[p].pc \in {"idle", "done"}
  /\ Len(queue[p]) > 0
  /\ LET req == Head(queue[p])
         fresh == [IdleDelivery EXCEPT
                     !.n = dl[p].n + 1, !.req = req, !.before = dir,
                     !.prevGood = /\ dl[p].pc = "done"
                                  /\ dl[p].status = 200
                                  /\ AllGood(dl[p].calls)]
     IN  dl' = [dl EXCEPT ![p] = Accept(fresh, req)]
  /\ queue' = [queue EXCEPT ![p] = Tail(@)]
  /\ UNCHANGED <<dir, env, stripeCust, relay, cat>>

SessionRetrieve(p) ==
  /\ dl[p].pc = "session"
  /\ \E ok \in StripeOutcomes :
       dl' = [dl EXCEPT ![p] =
                AfterSession(Logged(@, "session", IF ok THEN 200 ELSE 500, ok), ok)]
  /\ UNCHANGED <<dir, env, stripeCust, queue, relay, cat>>

CustomerRetrieve(p) ==
  /\ dl[p].pc = "customer"
  /\ \E ok \in StripeOutcomes :
       dl' = [dl EXCEPT ![p] =
                AfterCustomer(Logged(@, "customer", IF ok THEN 200 ELSE 500, ok),
                              ok, stripeCust)]
  /\ UNCHANGED <<dir, env, stripeCust, queue, relay, cat>>

SubCustomerRetrieve(p) ==
  /\ dl[p].pc = "subcustomer"
  /\ \E ok \in StripeOutcomes :
       dl' = [dl EXCEPT ![p] =
                AfterSubCustomer(Logged(@, "customer", IF ok THEN 200 ELSE 500, ok),
                                 ok, stripeCust)]
  /\ UNCHANGED <<dir, env, stripeCust, queue, relay, cat>>

LookupV3(p) ==
  /\ dl[p].pc = "lookup_v3"
  /\ \E status \in LookupV3Statuses, shape \in LookupShapes :
       LET normalized == NormalizeEmail(LookupEmail(dl[p]))
           list == PlatformLookup(dir, normalized, shape)
       IN  dl' = [dl EXCEPT ![p] =
                    AfterLookupV3(LoggedLookup(@, "lookup_v3", status, list, normalized),
                                  status, list)]
  /\ UNCHANGED <<dir, env, stripeCust, queue, relay, cat>>

LookupV2(p) ==
  /\ dl[p].pc = "lookup_v2"
  /\ \E status \in LookupV2Statuses, shape \in LookupShapes :
       LET normalized == NormalizeEmail(LookupEmail(dl[p]))
           list == PlatformLookup(dir, normalized, shape)
       IN  dl' = [dl EXCEPT ![p] =
                    AfterLookupV2(LoggedLookup(@, "lookup_v2", status, list, normalized),
                                  status, list)]
  /\ UNCHANGED <<dir, env, stripeCust, queue, relay, cat>>

CreateV3(p) ==
  /\ dl[p].pc = "create_v3"
  /\ \E status \in CreateV3Statuses, hasId \in BOOLEAN :
       LET normalized == NormalizeEmail(dl[p].email)
           created == IsOk(status)
           id == IF created /\ hasId THEN Len(dir) + 1 ELSE Null
       IN  /\ dir' = IF created
                     THEN PlatformCreate(dir, normalized, FirstName(dl[p].fullName),
                                         LastName(dl[p].fullName),
                                         V3CreateGroup(dl[p].target))
                     ELSE dir
           /\ dl' = [dl EXCEPT ![p] =
                       AfterCreateV3(Logged(@, "create_v3", status, created /\ hasId),
                                     status, id)]
  /\ UNCHANGED <<env, stripeCust, queue, relay, cat>>

CreateV2(p) ==
  /\ dl[p].pc = "create_v2"
  /\ \E status \in CreateV2Statuses, hasId \in BOOLEAN :
       LET normalized == NormalizeEmail(dl[p].email)
           created == IsOk(status)
           id == IF created /\ hasId THEN Len(dir) + 1 ELSE Null
       IN  /\ dir' = IF created
                     THEN PlatformCreate(dir, normalized, FirstName(dl[p].fullName),
                                         LastName(dl[p].fullName), Null)
                     ELSE dir
           /\ dl' = [dl EXCEPT ![p] =
                       AfterCreateV2(Logged(@, "create_v2", status, created /\ hasId),
                                     status, id)]
  /\ UNCHANGED <<env, stripeCust, queue, relay, cat>>

Patch(p) ==
  /\ dl[p].pc = "patch"
  /\ \E answer \in PatchAnswers :
       LET status == answer[1]
           txtArray == answer[2]
       IN  /\ dir' = IF IsOk(status)
                     THEN PlatformSetGroup(dir, dl[p].bcId, dl[p].setTo)
                     ELSE dir
           /\ dl' = [dl EXCEPT ![p] =
                       AfterPatch(LoggedPatch(@, status, txtArray), status, txtArray)]
  /\ UNCHANGED <<env, stripeCust, queue, relay, cat>>

Put(p) ==
  /\ dl[p].pc = "put"
  /\ \E status \in PutStatuses :
       /\ dir' = IF IsOk(status) THEN PlatformSetGroup(dir, dl[p].bcId, dl[p].setTo)
                 ELSE dir
       /\ dl' = [dl EXCEPT ![p] =
                   AfterPut(Logged(@, "put", status, IsOk(status)), status)]
  /\ UNCHANGED <<env, stripeCust, queue, relay, cat>>

Next ==
  \E p \in Procs :
    \/ HandleRequest(p)
    \/ SessionRetrieve(p)
    \/ CustomerRetrieve(p)
    \/ SubCustomerRetrieve(p)
    \/ LookupV3(p)
    \/ LookupV2(p)
    \/ CreateV3(p)
    \/ CreateV2(p)
    \/ Patch(p)
    \/ Put(p)

Spec == Init /\ [][Next]_vars

\* ------------------------------------------------------------- vocabulary
Done(d) == d.pc = "done"
IsPost(d) == d.n > 0 /\ d.req.method = "POST"
\* the header is the provider's signature of exactly these bytes
Genuine(req) == req.sig = <<Sign(req.body, STRIPE_WEBHOOK_SECRET)>>
Verified(d) == IsPost(d) /\ Genuine(d.req)

HandledKinds == {CHECKOUT, INVOICE_PAID, INVOICE_FAILED, SUB_DELETED}
FinalCalls == {"lookup_v2", "create_v2", "put"}

Issued(d, name) == \E i \in 1..Len(d.calls) : d.calls[i].call = name
NoPlatformCall(d) == \A i \in 1..Len(d.calls) : d.calls[i].call \notin PlatformCalls

\* the last call was the last resort of its operation and gave nothing usable
HardFailure(d) ==
  /\ Len(d.calls) > 0
  /\ d.calls[Len(d.calls)].call \in FinalCalls
  /\ ~d.calls[Len(d.calls)].good

\* call i is followed by (or has led to the pending) call name
FollowedBy(d, i, name) ==
  IF i < Len(d.calls) THEN d.calls[i + 1].call = name ELSE d.pc = name

\* the call at position i ended the delivery with a 500
Fatal(d, i) == Done(d) /\ d.status = 500 /\ i = Len(d.calls)

Matching(directory, e) == SelectSeq(directory, LAMBDA r : ToLower(r.email) = e)
ResolvedEmail(d) == NormalizeEmail(LookupEmail(d))

\* ------------------------------------------------------------- redelivery
\* The provider delivers the event once and again after every 500 answer;
\* BigCommerce may fail during the first MaxFailing deliveries and answers
\* every request 2xx with a usable body afterwards.
\* The deliveries followed under redelivery: each kind once or twice, a
\* purchase with one line item of two price paths.
LiveItems == <<[pidNew |-> "p2", pidOld |-> "p1"]>>
LiveRequests ==
  {r \in Requests :
     LET o == r.body.obj IN
     \/ r.body.type \in {SUB_DELETED, OTHER_KIND}
     \/ r.method = "POST" /\ r.sig = <<>>
     \/ /\ r.method = "POST" /\ Genuine(r) /\ o.items = LiveItems
        /\ \/ /\ r.body.type = CHECKOUT /\ o.customerEmail = <<>>
              /\ o.customer <=> (o.detailsEmail = <<>>)
           \/ r.body.type = INVOICE_PAID /\ o.detailsEmail = <<>> /\ o.customer
           \/ /\ r.body.type = INVOICE_FAILED /\ o.detailsEmail = <<>>
              /\ o.customerEmail = EmailB /\ o.customer}

LiveMap == ("p1" :> 2) @@ ("p2" :> 3)
LiveCust == [email |-> EmailC, name |-> NameB]

InitLive ==
  /\ dir \in InitDirs
  /\ env = LiveMap
  /\ stripeCust = LiveCust
  /\ \E r \in LiveRequests : queue = [p \in Procs |-> IF p = 1 THEN <<r>> ELSE <<>>]
  /\ dl = [p \in Procs |-> IdleDelivery]
  /\ relay = IdleRelay
  /\ cat = IdleCat(NoStore)

Recovered(d) ==
  d.n > MaxFailing =>
    \A i \in 1..Len(d.calls) : d.calls[i].call \in PlatformCalls => d.calls[i].good

Redeliver(p) ==
  /\ dl[p].pc = "done"
  /\ dl[p].status = 500
  /\ queue[p] = <<>>
  /\ queue' = [queue EXCEPT ![p] = <<dl[p].req>>]
  /\ UNCHANGED <<dir, env, stripeCust, dl, relay, cat>>

NextLive ==
  \E p \in Procs :
    \/ HandleRequest(p) /\ Recovered(dl'[p])
    \/ SessionRetrieve(p) /\ Recovered(dl'[p])
    \/ CustomerRetrieve(p) /\ Recovered(dl'[p])
    \/ SubCustomerRetrieve(p) /\ Recovered(dl'[p])
    \/ LookupV3(p) /\ Recovered(dl'[p])
    \/ LookupV2(p) /\ Recovered(dl'[p])
    \/ CreateV3(p) /\ Recovered(dl'[p])
    \/ CreateV2(p) /\ Recovered(dl'[p])
    \/ Patch(p) /\ Recovered(dl'[p])
    \/ Put(p) /\ Recovered(dl'[p])
    \/ Redeliver(p)

\* every pending upstream call returns and every due redelivery arrives
LiveSpec == InitLive /\ [][NextLive]_vars /\ WF_vars(NextLive)

\* ------------------------------------------------------------- concurrency
\* Two handler instances run at once, one delivery each; their steps
\* interleave at the awaits.
SignedPost(b) == [method |-> "POST", body |-> b, sig |-> <<Sign(b, STRIPE_WEBHOOK_SECRET)>>]

\* a checkout of "A", an invoice whose email is the customer resource's " c",
\* the cancellation of the subscription of " c"
ConcCheckout ==
  SignedPost([type |-> CHECKOUT,
              obj |-> [EmptyObj EXCEPT !.detailsEmail = EmailA, !.detailsName = NameAL,
                                       !.items = LiveItems]])
ConcInvoice ==
  SignedPost([type |-> INVOICE_PAID,
              obj |-> [EmptyObj EXCEPT !.customer = TRUE, !.items = LiveItems]])
ConcCancel == SignedPost([type |-> SUB_DELETED, obj |-> SubscriptionObj])

ConcPairs ==
  {<<ConcCheckout, ConcCheckout>>, <<ConcCheckout, ConcInvoice>>,
   <<ConcCheckout, ConcCancel>>, <<ConcInvoice, ConcInvoice>>,
   <<ConcInvoice, ConcCancel>>, <<ConcCancel, ConcCancel>>}

InitConc ==
  /\ dir \in InitDirs
  /\ env = LiveMap
  /\ stripeCust = LiveCust
  /\ \E rr \in ConcPairs : queue = [p \in Procs |-> <<rr[p]>>]
  /\ dl = [p \in Procs |-> IdleDelivery]
  /\ relay = IdleRelay
  /\ cat = IdleCat(NoStore)

ConcSpec == InitConc /\ [][Next]_vars

\* ------------------------------------------------------------- claims
\* C1: a POST delivery whose signature does not verify (missing header, wrong
\* secret, signature of other bytes) has been answered 400 and has made no
\* upstream call at all.
C1_BadSignatureRejected ==
  \A p \in Procs :
    (IsPost(dl[p]) /\ ~Genuine(dl[p].req)) =>
      /\ Done(dl[p])
      /\ dl[p].status = 400
      /\ dl[p].calls = <<>>
      /\ dir = dl[p].before

C1_Witness ==
  \E p \in Procs :
    /\ IsPost(dl[p]) /\ Done(dl[p]) /\ dl[p].status = 400
    /\ dl[p].req.sig = <<Sign(dl[p].req.body, "other")>>

\* C2: an answered POST delivery has status 400 exactly when its signature
\* did not verify, 500 exactly when the last-resort commerce-platform call of
\* an operation failed, and 200 otherwise; no other status occurs.
C2_StatusContract ==
  \A p \in Procs :
    (Done(dl[p]) /\ IsPost(dl[p])) =>
      /\ dl[p].status \in {200, 400, 500}
      /\ (dl[p].status = 400) <=> ~Genuine(dl[p].req)
      /\ (dl[p].status = 500) <=> (Genuine(dl[p].req) /\ HardFailure(dl[p]))

C2_Witness ==
  \E p \in Procs :
    /\ Done(dl[p]) /\ IsPost(dl[p]) /\ dl[p].status = 500
    /\ Issued(dl[p], "patch") /\ HardFailure(dl[p])

\* C3: when a delivery whose upstream calls all succeeded is followed by a
\* redelivery of the same event whose upstream calls all succeed too, the
\* redelivery adds no customer record and leaves the records of the event's
\* email (ids and group ids) as the first processing left them.
C3_Idempotent ==
  \A p \in Procs :
    (Done(dl[p]) /\ dl[p].n >= 2 /\ dl[p].prevGood /\ AllGood(dl[p].calls)) =>
      /\ Len(dir) = Len(dl[p].before)
      /\ Matching(dir, ResolvedEmail(dl[p])) =
           Matching(dl[p].before, ResolvedEmail(dl[p]))

\* the first processing created the customer ("a" is stored only by a create),
\* the redelivery found it and applied the group again
C3_Witness ==
  \E p \in Procs :
    /\ Done(dl[p]) /\ dl[p].n >= 2 /\ dl[p].prevGood /\ AllGood(dl[p].calls)
    /\ Issued(dl[p], "patch")
    /\ Len(dl[p].before) = 1 /\ dl[p].before[1].email = <<"a">>
    /\ dl[p].before[1].group = 3

\* C4: a v3 lookup answered 404, a v3 create answered with a rejection, and a
\* PATCH answered 422, 404 or with an "array" complaint are each followed by
\* the v2 lookup, the v2 create, the bulk PUT of the same delivery: the
\* delivery is not answered before that call.
C4_FallbackAttempted ==
  \A p \in Procs :
    \A i \in 1..Len(dl[p].calls) :
      LET c == dl[p].calls[i] IN
      /\ (c.call = "lookup_v3" /\ c.status = 404) => FollowedBy(dl[p], i, "lookup_v2")
      /\ (c.call = "create_v3" /\ ~IsOk(c.status)) => FollowedBy(dl[p], i, "create_v2")
      /\ (c.call = "patch" /\ ~IsOk(c.status) /\ (c.status \in {422, 404} \/ c.array))
           => FollowedBy(dl[p], i, "put")

C4_Witness ==
  \E p \in Procs :
    /\ Done(dl[p]) /\ dl[p].status = 500 /\ Len(dl[p].calls) >= 2
    /\ dl[p].calls[Len(dl[p].calls) - 1].call = "lookup_v3"
    /\ dl[p].calls[Len(dl[p].calls) - 1].status = 404
    /\ dl[p].calls[Len(dl[p].calls)].call = "lookup_v2"

\* C5 (as claimed): a v3 lookup failure other than 404, or a v3 create that
\* fails without being rejected (2xx without an id), ends the delivery with
\* 500 and no v2 call of that operation.
C5_NonSignalIsFatal ==
  \A p \in Procs :
    \A i \in 1..Len(dl[p].calls) :
      LET c == dl[p].calls[i] IN
      /\ (c.call = "lookup_v3" /\ ~IsOk(c.status) /\ c.status /= 404) => Fatal(dl[p], i)
      /\ (c.call = "create_v3" /\ IsOk(c.status) /\ ~c.good) => Fatal(dl[p], i)

\* C6 (as claimed): a PATCH failure that is no shape-mismatch signal ends the
\* delivery with 500 and no bulk PUT.
C6_BulkOnlyOnSignal ==
  \A p \in Procs :
    \A i \in 1..Len(dl[p].calls) :
      LET c == dl[p].calls[i] IN
      (c.call = "patch" /\ ~IsOk(c.status) /\ ~(c.status \in {422, 404} \/ c.array))
        => Fatal(dl[p], i)

\* C7: a verified delivery of a kind that is not handled has been answered
\* 200 {ok:true, ignored:<kind>} and has made no upstream call.
C7_UnhandledIgnored ==
  \A p \in Procs :
    (Verified(dl[p]) /\ dl[p].req.body.type \notin HandledKinds) =>
      /\ Done(dl[p])
      /\ dl[p].status = 200
      /\ dl[p].body = [ok |-> TRUE, ignored |-> dl[p].req.body.type, text |-> FALSE]
      /\ dl[p].calls = <<>>
      /\ dir = dl[p].before

C7_Witness ==
  \E p \in Procs :
    /\ Verified(dl[p]) /\ dl[p].req.body.type = OTHER_KIND
    /\ Done(dl[p]) /\ dl[p].body.ignored = OTHER_KIND

\* C8: an answered verified delivery of a handled kind that resolved no email
\* was answered 200, made no commerce-platform call and left the directory
\* as it was.
C8_NoEmailSkipped ==
  \A p \in Procs :
    (/\ Done(dl[p]) /\ Verified(dl[p])
     /\ dl[p].req.body.type \in HandledKinds
     /\ ~NonEmpty(LookupEmail(dl[p]))) =>
      /\ dl[p].status = 200
      /\ NoPlatformCall(dl[p])
      /\ dir = dl[p].before

\* a purchase whose session and customer resource carry no email
C8_Witness ==
  \E p \in Procs :
    /\ Done(dl[p]) /\ Verified(dl[p]) /\ dl[p].req.body.type = CHECKOUT
    /\ ~NonEmpty(LookupEmail(dl[p]))
    /\ Len(dl[p].calls) = 2 /\ AllGood(dl[p].calls)

\* C9: an answered purchase delivery (checkout completed, invoice paid) with
\* email e and resolved group g, all of whose upstream calls succeeded, that
\* found no customer with email e: the answer is 200 {ok:true} and the
\* directory is the former one plus one new customer with email e (trimmed,
\* lower case) and group g.
C9_PurchaseCreates ==
  \A p \in Procs :
    (/\ Done(dl[p]) /\ Verified(dl[p])
     /\ dl[p].req.body.type \in {CHECKOUT, INVOICE_PAID}
     /\ NonEmpty(dl[p].email) /\ Truthy(dl[p].target)
     /\ AllGood(dl[p].calls)
     /\ Matching(dl[p].before, ResolvedEmail(dl[p])) = <<>>) =>
      /\ dl[p].status = 200 /\ dl[p].body = [ok |-> TRUE, ignored |-> "", text |-> FALSE]
      /\ Len(dir) = Len(dl[p].before) + 1
      /\ SubSeq(dir, 1, Len(dl[p].before)) = dl[p].before
      /\ dir[Len(dir)].email = ResolvedEmail(dl[p])
      /\ dir[Len(dir)].group = dl[p].target

C9_Witness ==
  \E p \in Procs :
    /\ Done(dl[p]) /\ Verified(dl[p]) /\ dl[p].req.body.type = CHECKOUT
    /\ dl[p].email = EmailA /\ dl[p].target = 3 /\ AllGood(dl[p].calls)
    /\ dl[p].before = <<>> /\ Len(dir) = 1 /\ dir[1].group = 3

\* C10 (as claimed): an answered subscription-ended delivery whose customer
\* email matches a directory customer has cleared that customer's group and
\* was answered 200.
C10_CancellationClears ==
  \A p \in Procs :
    (/\ Done(dl[p]) /\ Verified(dl[p]) /\ dl[p].req.body.type = SUB_DELETED
     /\ NonEmpty(dl[p].custEmail)
     /\ Matching(dl[p].before, ResolvedEmail(dl[p])) /= <<>>) =>
      /\ dl[p].status = 200
      /\ Matching(dir, ResolvedEmail(dl[p]))[1].group = NO_GROUP

\* C10 (amended): ... unless the last-resort call of the lookup or of the
\* group update failed (v2 lookup or bulk PUT not answered 2xx), in which
\* case the answer is 500.
C10_CancellationClearsUnlessFailed ==
  \A p \in Procs :
    (/\ Done(dl[p]) /\ Verified(dl[p]) /\ dl[p].req.body.type = SUB_DELETED
     /\ NonEmpty(dl[p].custEmail)
     /\ Matching(dl[p].before, ResolvedEmail(dl[p])) /= <<>>) =>
      IF HardFailure(dl[p])
      THEN dl[p].status = 500
      ELSE /\ dl[p].status = 200
           /\ Matching(dir, ResolvedEmail(dl[p]))[1].group = NO_GROUP

\* the customer "c" had group 2 before the first delivery
C10_Witness ==
  \E p \in Procs :
    /\ Done(dl[p]) /\ Verified(dl[p]) /\ dl[p].req.body.type = SUB_DELETED
    /\ dl[p].n = 1 /\ dl[p].custEmail = EmailC /\ dl[p].status = 200
    /\ Len(dl[p].before) = 2 /\ dl[p].before[2].group = 2
    /\ dir[2].group = NO_GROUP /\ dir[1].group = 3

\* C11 (as claimed): an answered payment-failed delivery whose email matches a
\* directory customer was answered 200; with the remove-on-failure setting on
\* that customer's group is NO_GROUP, with the setting off no commerce-platform
\* call was made and the directory is as before.
C11_PaymentFailedClears ==
  \A p \in Procs :
    (/\ Done(dl[p]) /\ Verified(dl[p]) /\ dl[p].req.body.type = INVOICE_FAILED
     /\ NonEmpty(dl[p].email)
     /\ Matching(dl[p].before, ResolvedEmail(dl[p])) /= <<>>) =>
      /\ dl[p].status = 200
      /\ IF REMOVE_ON_PAYMENT_FAILED
         THEN Matching(dir, ResolvedEmail(dl[p]))[1].group = NO_GROUP
         ELSE NoPlatformCall(dl[p]) /\ dir = dl[p].before

\* C11 (amended): ... unless the last-resort call of the lookup or of the group
\* update failed (v2 lookup or bulk PUT not answered 2xx): then the answer is
\* 500 and the directory is as before.
C11_PaymentFailedClearsUnlessFailed ==
  \A p \in Procs :
    (/\ Done(dl[p]) /\ Verified(dl[p]) /\ dl[p].req.body.type = INVOICE_FAILED
     /\ NonEmpty(dl[p].email)
     /\ Matching(dl[p].before, ResolvedEmail(dl[p])) /= <<>>) =>
      IF HardFailure(dl[p])
      THEN dl[p].status = 500 /\ dir = dl[p].before
      ELSE /\ dl[p].status = 200
           /\ IF REMOVE_ON_PAYMENT_FAILED
              THEN Matching(dir, ResolvedEmail(dl[p]))[1].group = NO_GROUP
              ELSE NoPlatformCall(dl[p]) /\ dir = dl[p].before

\* the customer "b" had group 3 before the failed payment of its invoice
C11_Witness ==
  \E p \in Procs :
    /\ Done(dl[p]) /\ Verified(dl[p]) /\ dl[p].req.body.type = INVOICE_FAILED
    /\ dl[p].n = 1 /\ dl[p].email = EmailB /\ dl[p].status = 200
    /\ Len(dl[p].before) = 2 /\ dl[p].before[1].group = 3
    /\ dir[1].group = NO_GROUP /\ dir[2].group = 2

\* C12: an exception that leaves lookupBcCustomerIdByEmail, createBcCustomer
\* or setBcCustomerGroup (the v2 lookup, the v2 create or the bulk PUT gave
\* nothing usable) ends the delivery at once: the answer is 500 and the
\* failed call is the last call of the delivery.
C12_FailedIsAbsorbing ==
  \A p \in Procs :
    \A i \in 1..Len(dl[p].calls) :
      LET c == dl[p].calls[i] IN
      (c.call \in FinalCalls /\ ~c.good) =>
        /\ Done(dl[p])
        /\ dl[p].status = 500
        /\ dl[p].body = [ok |-> FALSE, ignored |-> "", text |-> FALSE]
        /\ i = Len(dl[p].calls)

\* the v3 create was rejected and the v2 create failed too
C12_Witness ==
  \E p \in Procs :
    /\ Done(dl[p]) /\ dl[p].status = 500 /\ Len(dl[p].calls) >= 2
    /\ dl[p].calls[Len(dl[p].calls) - 1].call = "create_v3"
    /\ dl[p].calls[Len(dl[p].calls)].call = "create_v2"
    /\ dl[p].calls[Len(dl[p].calls)].status = 500

\* position of an upstream call in the pipeline
StepRank(name) ==
  CASE name = "session" -> 1
    [] name = "customer" -> 2
    [] name = "lookup_v3" -> 3
    [] name = "lookup_v2" -> 4
    [] name = "create_v3" -> 5
    [] name = "create_v2" -> 6
    [] name = "patch" -> 7
    [] name = "put" -> 8

\* the upstream calls of the delivery, the pending one included
Steps(d) == [i \in 1..Len(d.calls) |-> d.calls[i].call]
              \o (IF d.pc \in PlatformCalls THEN <<d.pc>> ELSE <<>>)

\* a lookup answered 2xx and the handler read no customer id from it
LookupFoundNone(d, i) ==
  /\ i >= 1
  /\ d.calls[i].call \in {"lookup_v3", "lookup_v2"}
  /\ IsOk(d.calls[i].status)
  /\ (i = Len(d.calls) => ~Truthy(d.bcId))

\* C13: within a delivery the upstream calls follow the pipeline order
\* (Stripe reads, lookup, create, group update; an answered delivery has no
\* pending call); a commerce-platform call is issued only for a verified
\* delivery with an email, and for a purchase only with the tier resolved; the
\* v3 create directly follows a lookup that returned no customer and the v2
\* create directly follows the v3 create; a group update is issued only with
\* a customer id, right after the lookup or create that returned it.
C13_PipelineOrder ==
  \A p \in Procs :
    LET d == dl[p]
        steps == Steps(d)
    IN
    /\ \A i \in 1..(Len(steps) - 1) : StepRank(steps[i]) < StepRank(steps[i + 1])
    /\ \A i \in 1..Len(steps) :
         /\ steps[i] \in PlatformCalls =>
              /\ Verified(d)
              /\ NonEmpty(LookupEmail(d))
              /\ IsPurchase(d.type) => d.target = priceToGroupId(d.found, env)
         /\ steps[i] = "create_v3" => LookupFoundNone(d, i - 1)
         /\ steps[i] = "create_v2" => (i > 1 /\ steps[i - 1] = "create_v3")
         /\ steps[i] = "patch" =>
              /\ Truthy(d.bcId)
              /\ i > 1
              /\ d.calls[i - 1].call \in {"lookup_v3", "lookup_v2", "create_v3", "create_v2"}
              /\ d.calls[i - 1].good
         /\ steps[i] = "put" => (Truthy(d.bcId) /\ i > 1 /\ steps[i - 1] = "patch")

\* a checkout that went through every stage: session, both lookups, both
\* creates, PATCH and PUT
C13_Witness ==
  \E p \in Procs :
    /\ Done(dl[p]) /\ dl[p].status = 200 /\ dl[p].type = CHECKOUT
    /\ Steps(dl[p]) = <<"session", "lookup_v3", "lookup_v2", "create_v3",
                        "create_v2", "patch", "put">>

\* the first identifier of priceIds that is a key of map, "" when none is
RECURSIVE FirstKey(_, _)
FirstKey(priceIds, map) ==
  IF Len(priceIds) = 0 THEN ""
  ELSE IF MapHas(map, priceIds[1]) THEN priceIds[1]
       ELSE FirstKey(Tail(priceIds), map)

\* C14 (as claimed): the tier a purchase resolves is the group id mapped to
\* the first discovered price identifier that is a key of the mapping table,
\* null when none is a key, and resolving the same identifiers again gives
\* the same tier.
C14_FirstKeyWins ==
  \A p \in Procs :
    (Verified(dl[p]) /\ IsPurchase(dl[p].type) /\ Issued(dl[p], "lookup_v3")) =>
      LET pid == FirstKey(dl[p].found, env) IN
      /\ dl[p].target = (IF pid = "" THEN Null ELSE env[pid])
      /\ dl[p].target = priceToGroupId(dl[p].found, env)

\* the v3 create returned the new customer's id
CreatedByV3(d) ==
  \E i \in 1..Len(d.calls) : d.calls[i].call = "create_v3" /\ d.calls[i].good

\* C15: in a purchase delivery with a resolved group, setBcCustomerGroup is
\* invoked (its PATCH issued or pending) exactly when the handler holds a
\* customer id that did not come from a v3 create carrying the group: the
\* customer was found by the lookup or was created by the v2 create.  After
\* a v3 create that applied the group no PATCH or PUT is issued, and the new
\* customer has the group.
C15_ReconcilerWhenNotApplied ==
  \A p \in Procs :
    LET d == dl[p] IN
    (Verified(d) /\ IsPurchase(d.type) /\ Truthy(d.target)) =>
      /\ (Issued(d, "patch") \/ d.pc = "patch") <=> (Truthy(d.bcId) /\ ~CreatedByV3(d))
      /\ CreatedByV3(d) =>
           /\ ~Issued(d, "put") /\ d.pc /= "put"
           /\ Done(d) /\ d.status = 200
           /\ d.bcId = Len(dir) /\ dir[d.bcId].group = d.target

\* an invoice of a new customer: the v3 create applied group 3, no update
C15_Witness ==
  \E p \in Procs :
    /\ Done(dl[p]) /\ Verified(dl[p]) /\ dl[p].type = INVOICE_PAID
    /\ dl[p].target = 3 /\ CreatedByV3(dl[p]) /\ ~Issued(dl[p], "patch")
    /\ dl[p].status = 200 /\ dir[dl[p].bcId].group = 3

\* the v3 create was rejected and the v2 create returned the new id
CreatedByV2AfterRejection(d) ==
  \E i \in 2..Len(d.calls) :
    /\ d.calls[i - 1].call = "create_v3" /\ ~IsOk(d.calls[i - 1].status)
    /\ d.calls[i].call = "create_v2" /\ d.calls[i].good

\* C16: when the v3 create was rejected and the v2 create made the customer,
\* groupAppliedAtCreate is false; in a purchase with resolved group g the
\* group update follows the create, and if the delivery is answered 200 the
\* customer made by the v2 create has group g.
C16_LegacyCreateThenGroup ==
  \A p \in Procs :
    LET d == dl[p] IN
    (Verified(d) /\ IsPurchase(d.type) /\ CreatedByV2AfterRejection(d)) =>
      /\ ~d.applied
      /\ d.bcId = Len(dir)
      /\ Truthy(d.target) =>
           /\ Issued(d, "patch") \/ d.pc = "patch"
           /\ (Done(d) /\ d.status = 200) => dir[d.bcId].group = d.target
      /\ ~Truthy(d.target) => (Done(d) /\ dir[d.bcId].group = NO_GROUP)

\* checkout of a new customer: v3 create rejected, v2 create, PATCH of group 2
C16_Witness ==
  \E p \in Procs :
    /\ Done(dl[p]) /\ Verified(dl[p]) /\ dl[p].type = CHECKOUT
    /\ CreatedByV2AfterRejection(dl[p]) /\ dl[p].target = 2 /\ dl[p].status = 200
    /\ dl[p].calls[Len(dl[p].calls)].call = "patch"
    /\ dl[p].before = <<>> /\ dir[dl[p].bcId].group = 2

\* C17: a PATCH answered 2xx, whatever its body (empty, or one that mentions
\* "array"), is the last call of the delivery: no bulk PUT follows, the
\* answer is 200 {ok:true} and the customer has the group that was set.
C17_PatchSuccessEnds ==
  \A p \in Procs :
    LET d == dl[p] IN
    \A i \in 1..Len(d.calls) :
      (d.calls[i].call = "patch" /\ IsOk(d.calls[i].status)) =>
        /\ i = Len(d.calls)
        /\ Done(d)
        /\ d.status = 200 /\ d.body = [ok |-> TRUE, ignored |-> "", text |-> FALSE]
        /\ \E k \in 1..Len(dir) : dir[k].id = d.bcId /\ dir[k].group = d.setTo

\* an existing customer's checkout: session, v3 lookup, PATCH answered 2xx
\* with an empty body
C17_Witness ==
  \E p \in Procs :
    /\ Done(dl[p]) /\ dl[p].type = CHECKOUT /\ dl[p].status = 200
    /\ Steps(dl[p]) = <<"session", "lookup_v3", "patch">>
    /\ dl[p].calls[3].status = 200 /\ ~dl[p].calls[3].array
    /\ dl[p].setTo = 2

\* the last call of the delivery is a lookup that answered 2xx
LookupReturned(d) ==
  /\ Len(d.calls) > 0
  /\ d.calls[Len(d.calls)].call \in {"lookup_v3", "lookup_v2"}
  /\ IsOk(d.calls[Len(d.calls)].status)

\* C18: when lookupBcCustomerIdByEmail has returned (from its v3 or its v2
\* request), the id the handler holds is that of the first directory record
\* whose lower-cased email equals the trimmed, lower-cased input, and null
\* when there is none; it is never the id of a record of another email, even
\* when the answer carried such records.
C18_LookupExactMatch ==
  \A p \in Procs :
    LET d == dl[p]
        e == NormalizeEmail(LookupEmail(d))
        hits == {k \in 1..Len(dir) : ToLower(dir[k].email) = e}
    IN
    LookupReturned(d) =>
      /\ hits = {} => d.bcId = Null
      /\ hits /= {} =>
           d.bcId = dir[CHOOSE k \in hits : \A j \in hits : k <= j].id
      /\ \A k \in 1..Len(dir) : dir[k].id = d.bcId => ToLower(dir[k].email) = e

\* the v2 lookup for " c" answered with the whole directory (b, c) and the
\* second record was taken
C18_Witness ==
  \E p \in Procs :
    /\ LookupReturned(dl[p]) /\ LookupEmail(dl[p]) = EmailC
    /\ dl[p].calls[Len(dl[p].calls)].call = "lookup_v2"
    /\ dl[p].calls[Len(dl[p].calls)].near
    /\ dl[p].bcId = 2 /\ dir[1].email = <<"b">> /\ dir[2].email = <<"c">>

\* C19 (as claimed): each line item of the session or invoice contributes at
\* most one price identifier, so a delivery never holds more discovered
\* identifiers than its event has line items.
C19_OnePricePerItem ==
  \A p \in Procs :
    Verified(dl[p]) => Len(dl[p].found) <= Len(dl[p].req.body.obj.items)

\* the Stripe read of that name was made and answered
Retrieved(d, name) ==
  \E i \in 1..Len(d.calls) : d.calls[i].call = name /\ d.calls[i].good

\* the delivery is past the collection of the email
EmailResolved(d) == Verified(d) /\ d.pc \notin {"idle", "session", "customer", "subcustomer"}

\* C20: once the email of a delivery is resolved it is, for a checkout, the
\* session's customer_details.email if present, else the session's
\* customer_email if present, else the email of the customer resource (read
\* only in that case); for an invoice, one of the invoice's own email fields
\* if any is present, else the email of the customer resource; for a
\* subscription, the email of the customer resource alone.  No email is
\* resolved when the source that is due could not be read.
C20_EmailPriority ==
  \A p \in Procs :
    LET d == dl[p]
        o == d.req.body.obj
        fromCustomer == IF Retrieved(d, "customer") THEN stripeCust.email ELSE <<>>
    IN
    EmailResolved(d) =>
      /\ d.type = CHECKOUT =>
           IF ~Retrieved(d, "session") THEN d.email = <<>> /\ ~Issued(d, "customer")
           ELSE IF NonEmpty(o.detailsEmail)
                THEN d.email = o.detailsEmail /\ ~Issued(d, "customer")
           ELSE IF NonEmpty(o.customerEmail)
                THEN d.email = o.customerEmail /\ ~Issued(d, "customer")
           ELSE d.email = fromCustomer
      /\ d.type \in {INVOICE_PAID, INVOICE_FAILED} =>
           IF NonEmpty(o.customerEmail) \/ NonEmpty(o.detailsEmail)
           THEN NonEmpty(d.email) /\ d.email \in {o.customerEmail, o.detailsEmail}
           ELSE d.email = fromCustomer
      /\ d.type = SUB_DELETED => (d.email = <<>> /\ d.custEmail = fromCustomer)

\* a checkout whose session has both emails and a customer with a third one
C20_Witness ==
  \E p \in Procs :
    /\ EmailResolved(dl[p]) /\ Done(dl[p]) /\ dl[p].type = CHECKOUT
    /\ dl[p].req.body.obj.detailsEmail = EmailA
    /\ dl[p].req.body.obj.customerEmail = EmailB
    /\ dl[p].req.body.obj.customer /\ stripeCust.email = EmailC
    /\ dl[p].email = EmailA

StripeCalls == {"session", "customer"}

\* C21: a Stripe read (session, customer) that fails does not end the
\* delivery with an error: right after it the delivery either goes on to a
\* commerce-platform call with the email it already had, or is answered 200;
\* a delivery with a failed Stripe read is answered 500 only when the
\* last-resort commerce-platform call of an operation failed.
C21_StripeFailureNonFatal ==
  \A p \in Procs :
    LET d == dl[p] IN
    \A i \in 1..Len(d.calls) :
      (d.calls[i].call \in StripeCalls /\ ~d.calls[i].good) =>
        /\ i = Len(d.calls) =>
             \/ d.pc \in PlatformCalls /\ NonEmpty(LookupEmail(d))
             \/ Done(d) /\ d.status = 200 /\ ~NonEmpty(LookupEmail(d))
             \/ Done(d) /\ d.status = 200 /\ d.type = INVOICE_FAILED
                  /\ ~REMOVE_ON_PAYMENT_FAILED
        /\ i < Len(d.calls) => d.calls[i + 1].call \in PlatformCalls
        /\ Done(d) => d.status \in {200, 500}
        /\ (Done(d) /\ d.status = 500) => HardFailure(d)

\* an invoice with its own email: the customer read failed, the customer was
\* found and its group set all the same
C21_Witness ==
  \E p \in Procs :
    /\ Done(dl[p]) /\ dl[p].status = 200 /\ dl[p].type = INVOICE_PAID
    /\ dl[p].email = EmailB
    /\ Len(dl[p].calls) = 3
    /\ dl[p].calls[1].call = "customer" /\ ~dl[p].calls[1].good
    /\ dl[p].calls[3].call = "patch" /\ dl[p].calls[3].good

\* how many times the request form was issued in the delivery, the pending
\* request included
TimesIssued(d, name) ==
  Len(SelectSeq(d.calls, LAMBDA c : c.call = name)) + (IF d.pc = name THEN 1 ELSE 0)

\* C22: within one delivery each commerce-platform request form (v3 lookup,
\* v2 lookup, v3 create, v2 create, PATCH, bulk PUT) is issued at most once,
\* whatever was answered.
C22_NoLocalRetry ==
  \A p \in Procs :
    \A name \in PlatformCalls : TimesIssued(dl[p], name) <= 1

\* a delivery in which every form was issued and every first attempt failed
C22_Witness ==
  \E p \in Procs :
    /\ Done(dl[p]) /\ dl[p].status = 500
    /\ \A name \in PlatformCalls : TimesIssued(dl[p], name) = 1
    /\ \A i \in 1..Len(dl[p].calls) :
         dl[p].calls[i].call \in {"lookup_v3", "create_v3", "patch", "put"}
           => ~IsOk(dl[p].calls[i].status)

\* the email the event resolves to when every Stripe read succeeds
EventEmail(req) ==
  LET o == req.body.obj
      fromCustomer == IF o.customer THEN stripeCust.email ELSE <<>>
  IN  IF req.body.type = CHECKOUT
      THEN OrElse(o.detailsEmail, OrElse(o.customerEmail, fromCustomer))
      ELSE OrElse(o.customerEmail, OrElse(o.detailsEmail, fromCustomer))

\* the group the event's prices resolve to
EventGroup(req) == priceToGroupId(CollectItems(<<>>, req.body.obj.items), env)

\* a purchase event with an email and a mapped price is being delivered
PurchaseDue(d) ==
  /\ Verified(d) /\ IsPurchase(d.req.body.type)
  /\ NonEmpty(EventEmail(d.req)) /\ Truthy(EventGroup(d.req))

\* the customer the lookup resolves for the event's email has the event's group
HasEventGroup(d) ==
  LET m == Matching(dir, NormalizeEmail(EventEmail(d.req)))
  IN  m /= <<>> /\ m[1].group = EventGroup(d.req)

StripeReadsGood(d) ==
  \A i \in 1..Len(d.calls) : d.calls[i].call \in StripeCalls => d.calls[i].good

\* C23 (as claimed): with redelivery after every 500 and a platform that
\* eventually answers, a purchase event with an email and a mapped price is
\* eventually acknowledged 200 with the customer of its email in its group.
C23_Converges ==
  \A p \in Procs :
    [](PurchaseDue(dl[p]) =>
         <>(Done(dl[p]) /\ dl[p].status = 200 /\ HasEventGroup(dl[p])))

\* C23 (amended): ... is eventually acknowledged 200, and when the Stripe
\* reads of the acknowledged delivery succeeded the customer of its email is
\* in its group.
C23_ConvergesIfStripeReads ==
  \A p \in Procs :
    [](PurchaseDue(dl[p]) =>
         <>(/\ Done(dl[p]) /\ dl[p].status = 200
            /\ StripeReadsGood(dl[p]) => HasEventGroup(dl[p])))

\* the first delivery was answered 500, the redelivery created nothing new
\* and set the group
C23_Witness ==
  \E p \in Procs :
    /\ PurchaseDue(dl[p]) /\ dl[p].n = 2 /\ Done(dl[p]) /\ dl[p].status = 200
    /\ StripeReadsGood(dl[p]) /\ HasEventGroup(dl[p])
    /\ Issued(dl[p], "patch") /\ dl[p].before /= <<>>

\* C24: a delivery sends at most one response and has sent it exactly when it
\* has ended; after the response nothing of the delivery changes (no further
\* upstream call); and, every pending upstream call returning, every delivery
\* that has arrived is eventually answered.
C24_RunsToCompletion ==
  /\ [](\A p \in Procs : dl[p].sent <= 1 /\ (dl[p].sent = 1 <=> Done(dl[p])))
  /\ [][\A p \in Procs :
          (Done(dl[p]) /\ dl'[p].n = dl[p].n) => dl'[p] = dl[p]]_vars
  /\ \A p \in Procs : [](dl[p].n > 0 => <>Done(dl[p]))

\* a cancellation answered 500 and, redelivered, answered 200 after three
\* upstream calls
C24_Witness ==
  \E p \in Procs :
    /\ dl[p].n = 2 /\ Done(dl[p]) /\ dl[p].sent = 1 /\ dl[p].status = 200
    /\ dl[p].type = SUB_DELETED /\ Len(dl[p].calls) = 3

\* ------------------------------------------------------------- relay handler
MaxChunks == 2                \* chunks of an upstream body

\* function bad(res, code, msg)
Bad(r, code, msg) ==
  [r EXCEPT !.pc = "done", !.status = code, !.error = msg, !.ended = TRUE]

\* catch { try { res.status(500).json({ error: 'internal' }) } catch {} }:
\* once a chunk is written the headers are out, json() throws and the
\* response stays as it is, unended
Internal(r) ==
  IF r.written > 0 THEN [r EXCEPT !.pc = "done"]
  ELSE [r EXCEPT !.pc = "done", !.status = 500, !.error = "internal", !.ended = TRUE]

\* exp - now > (maxMin * 60 + 30); a comparison with NaN is false
BeyondWindow(exp, now, maxMin) ==
  IF maxMin = NaN THEN FALSE ELSE exp - now > maxMin * 60 + 30

\* the handler up to  await fetch(u)
Admit(e, rq, now) ==
  LET r == [IdleRelay EXCEPT !.e = e, !.req = rq, !.now = now]
      maxMin == ParseInt(e.maxMin, 70)
      u == DecodeURIComponent(rq.u)
      exp == ParseInt(rq.exp, 0)
      base == <<u, exp>>
      sig == DeriveSig(rq.sig, base, TokenKey(e.secret))
  IN  IF rq.method # "GET" THEN Bad(r, 405, "method")
      ELSE IF e.origin # "" /\ rq.origin # "" /\ rq.origin # e.origin
        THEN Bad(r, 403, "origin")
      ELSE IF Malformed(rq.u) THEN Internal(r)
      ELSE IF u = <<>> \/ exp = 0 \/ exp = NaN THEN Bad(r, 400, "params")
      ELSE IF now > exp THEN Bad(r, 403, "expired")
      ELSE IF <<HexHmac(base, TokenKey(e.secret))>> # sig THEN Bad(r, 403, "sig")
      ELSE IF BeyondWindow(exp, now, maxMin) THEN Bad(r, 403, "window")
      ELSE [r EXCEPT !.pc = "fetch", !.fetched = <<u>>]

\* what fetch(u) settles to: a response (ok or not, with a body of some
\* chunks or without one), or a rejection
Upstreams ==
  {[threw |-> FALSE, ok |-> TRUE, body |-> TRUE, chunks |-> k] : k \in 0..MaxChunks}
  \cup {[threw |-> FALSE, ok |-> FALSE, body |-> TRUE, chunks |-> 0],
        [threw |-> FALSE, ok |-> TRUE, body |-> FALSE, chunks |-> 0],
        [threw |-> TRUE, ok |-> FALSE, body |-> FALSE, chunks |-> 0]}

\* from the fetch to the first  await reader.read()
AfterFetch(r, up) ==
  IF up.threw THEN Internal(r)
  ELSE IF ~up.ok \/ ~up.body THEN Bad(r, 502, "upstream")
  ELSE [r EXCEPT !.pc = "stream", !.status = 200, !.left = up.chunks]

\* one turn of the loop: a chunk is written, or done ends the response, or
\* the read rejects
AfterRead(r, failed) ==
  IF failed THEN Internal(r)
  ELSE IF r.left = 0 THEN [r EXCEPT !.pc = "done", !.ended = TRUE]
  ELSE [r EXCEPT !.left = @ - 1, !.written = @ + 1]

hookVars == <<dir, env, stripeCust, queue, dl>>


RelayHandle ==
  /\ relay.pc = "idle"
  /\ \E e \in RelayEnvs : \E rq \in RelayRequests(e) : relay' = Admit(e, rq, RelayNow)
  /\ UNCHANGED <<hookVars, cat>>

RelayFetch ==
  /\ relay.pc = "fetch"
  /\ \E up \in Upstreams : relay' = AfterFetch(relay, up)
  /\ UNCHANGED <<hookVars, cat>>

RelayRead ==
  /\ relay.pc = "stream"
  /\ \E failed \in BOOLEAN : relay' = AfterRead(relay, failed)
  /\ UNCHANGED <<hookVars, cat>>

InitRelay ==
  /\ dir = <<>>
  /\ env = LiveMap
  /\ stripeCust = LiveCust
  /\ queue = [p \in Procs |-> <<>>]
  /\ dl = [p \in Procs |-> IdleDelivery]
  /\ relay = IdleRelay
  /\ cat = IdleCat(NoStore)

NextRelay == RelayHandle \/ RelayFetch \/ RelayRead

RelaySpec == InitRelay /\ [][NextRelay]_vars

\* ------------------------------------------------------------- categories handler
CatId == 7                    \* the id the platform gives the customer

CatLogged(c, name, ok) == [c EXCEPT !.calls = Append(@, [call |-> name, ok |-> ok])]

\* res.status(code).json(...)
CatRespond(c, code, answer) == [c EXCEPT !.pc = "done", !.status = code, !.answer = answer]

\* the handler up to its first await
CatAccept(c, rq) ==
  LET r == [c EXCEPT !.req = rq] IN
  IF rq.method \in {"GET", "POST"}
  THEN IF Trim(rq.email) = <<>> THEN CatRespond(r, 400, NoAnswer)
       ELSE [r EXCEPT !.pc = "lookup_v3"]
  ELSE CatRespond(r, 405, NoAnswer)

\* after lookupCustomerByEmail has returned id (Null for null)
AfterCatLookup(c, id) ==
  IF Truthy(id) THEN [c EXCEPT !.id = id, !.pc = "get"]
  ELSE IF c.req.method = "GET"
  THEN CatRespond(c, 200, [ok |-> TRUE, categories |-> <<>>, groupId |-> 0, limit |-> 2])
  ELSE [c EXCEPT !.pc = "create"]

\* lookupCustomerByEmail, the v3 attempt: a failure and "no such record"
\* both go on to the v2 search
AfterCatLookupV3(c, ok, id) ==
  IF ok /\ Truthy(id) THEN AfterCatLookup(c, id) ELSE [c EXCEPT !.pc = "lookup_v2"]

AfterCatLookupV2(c, ok, id) ==
  IF ~ok THEN CatRespond(c, 500, NoAnswer) ELSE AfterCatLookup(c, id)

\* if (!id) id = await createCustomer(email); if (!id) 500
AfterCatCreate(c, ok, id) ==
  IF ~ok \/ ~Truthy(id) THEN CatRespond(c, 500, NoAnswer)
  ELSE [c EXCEPT !.id = id, !.pc = "get"]

\* slip: the selection may hold fewer categories than the limit
LimitMet_AtMost(unique, limit) == Len(unique) <= limit

\* unique.length !== limit  refuses the request
LimitMet(unique, limit) == Len(unique) = limit

\* after getCustomerById has returned cust (NoCust for null)
AfterCatGet(c, ok, cust) ==
  IF ~ok THEN CatRespond(c, 500, NoAnswer)
  ELSE LET groupId == cust.group
           limit == limitForGroup(groupId)
           r == [c EXCEPT !.cust = cust]
       IN  IF c.req.method = "GET"
           THEN CatRespond(r, 200, [ok |-> TRUE, groupId |-> groupId, limit |-> limit,
                                    categories |-> extractCatsFromNotes(cust.notes)])
           ELSE LET unique == Unique(NormalizeCats(c.req.categories)) IN
                IF ~LimitMet(unique, limit)
                THEN CatRespond([r EXCEPT !.unique = unique], 400,
                                [ok |-> FALSE, categories |-> <<>>,
                                 groupId |-> groupId, limit |-> limit])
                ELSE [r EXCEPT !.unique = unique, !.pc = "update",
                               !.newNotes = setCatsInNotes(cust.notes, unique)]

AfterCatUpdate(c, ok) ==
  IF ~ok THEN CatRespond(c, 500, NoAnswer)
  ELSE CatRespond(c, 200, [ok |-> TRUE, categories |-> c.unique,
                           groupId |-> c.cust.group, limit |-> limitForGroup(c.cust.group)])

StoredId(store) == IF store.exists THEN CatId ELSE Null

otherVars == <<hookVars, relay>>

CatHandle ==
  /\ cat.pc = "idle"
  /\ \E rq \in CatRequests : cat' = CatAccept(cat, rq)
  /\ UNCHANGED otherVars

CatLookupV3 ==
  /\ cat.pc = "lookup_v3"
  /\ \E ok \in BOOLEAN :
       cat' = AfterCatLookupV3(CatLogged(cat, "lookup_v3", ok), ok, StoredId(cat.store))
  /\ UNCHANGED otherVars

CatLookupV2 ==
  /\ cat.pc = "lookup_v2"
  /\ \E ok \in BOOLEAN :
       cat' = AfterCatLookupV2(CatLogged(cat, "lookup_v2", ok), ok, StoredId(cat.store))
  /\ UNCHANGED otherVars

\* POST /v3/customers: a 2xx answer, with or without data[0].id, means the
\* customer now exists, without a group and without notes
CatCreate ==
  /\ cat.pc = "create"
  /\ \E ok \in BOOLEAN, hasId \in BOOLEAN :
       LET c == IF ok THEN [cat EXCEPT !.store = [exists |-> TRUE, group |-> 0, notes |-> <<>>]]
                ELSE cat
       IN  cat' = AfterCatCreate(CatLogged(c, "create", ok), ok,
                                 IF ok /\ hasId THEN CatId ELSE Null)
  /\ UNCHANGED otherVars

\* GET /v3/customers?id:in=<id>: the record, or a 2xx answer without one
CatGet ==
  /\ cat.pc = "get"
  /\ \E ok \in BOOLEAN, hasData \in BOOLEAN :
       LET cust == IF hasData
                   THEN [found |-> TRUE, group |-> cat.store.group, notes |-> cat.store.notes]
                   ELSE NoCust
       IN  cat' = AfterCatGet(CatLogged(cat, "get", ok), ok, cust)
  /\ UNCHANGED otherVars

\* PUT /v3/customers [{ id, notes }]
CatUpdate ==
  /\ cat.pc = "update"
  /\ \E ok \in BOOLEAN :
       LET c == IF ok THEN [cat EXCEPT !.store.notes = cat.newNotes] ELSE cat
       IN  cat' = AfterCatUpdate(CatLogged(c, "update", ok), ok)
  /\ UNCHANGED otherVars

InitCat ==
  /\ dir = <<>>
  /\ env = LiveMap
  /\ stripeCust = LiveCust
  /\ queue = [p \in Procs |-> <<>>]
  /\ dl = [p \in Procs |-> IdleDelivery]
  /\ relay = IdleRelay
  /\ \E s \in Stores : cat = IdleCat(s)

NextCat ==
  CatHandle \/ CatLookupV3 \/ CatLookupV2 \/ CatCreate \/ CatGet \/ CatUpdate

CatSpec == InitCat /\ [][NextCat]_vars

\* ------------------------------------------------------------- names
\* One delivery into an empty directory, the display name drawn from every
\* string of at most MaxNameLen symbols: as customer_details.name of a
\* checkout session, or as the name of the Stripe customer of an invoice or
\* of an ended subscription.
NameChars == {"A", " ", "\t"}
NameInputs == UNION {[1..k -> NameChars] : k \in 0..MaxNameLen}

NameCheckout(n) ==
  SignedPost([type |-> CHECKOUT,
              obj |-> [EmptyObj EXCEPT !.detailsEmail = EmailA, !.detailsName = n,
                                       !.items = LiveItems]])

InitName ==
  /\ dir = <<>>
  /\ env = LiveMap
  /\ \E n \in NameInputs :
       /\ stripeCust = [email |-> EmailC, name |-> n]
       /\ \E r \in {NameCheckout(n), ConcInvoice, ConcCancel} :
            queue = [p \in Procs |-> IF p = 1 THEN <<r>> ELSE <<>>]
  /\ dl = [p \in Procs |-> IdleDelivery]
  /\ relay = IdleRelay
  /\ cat = IdleCat(NoStore)

NameSpec == InitName /\ [][Next]_vars

\* the text before the first whitespace of the trimmed name, and the text
\* after it
NameHead(s) == LET t == Trim(s) IN SubSeq(t, 1, NextSpace(t, 1) - 1)
NameRest(s) == LET t == Trim(s) IN TrimLeft(SubSeq(t, NextSpace(t, 1), Len(t)))

\* s with each run of whitespace written as one blank
RECURSIVE Squeeze(_)
Squeeze(s) ==
  IF Len(s) = 0 THEN <<>>
  ELSE IF ~IsSpace(s[1]) THEN <<s[1]>> \o Squeeze(Tail(s))
  ELSE IF Len(s) > 1 /\ IsSpace(s[2]) THEN Squeeze(Tail(s))
  ELSE <<" ">> \o Squeeze(Tail(s))

\* C27: every customer record a delivery created carries a non-empty first
\* and last name: the first name is the text before the first whitespace of
\* the trimmed display name, the last name is the remainder (its whitespace
\* runs written as single blanks), and "Member" / "Account" stand in when
\* the name, or its remainder, is absent.
C27_NamesNeverEmpty ==
  \A p \in {q \in Procs : dl[q].n > 0} : \A k \in (Len(dl[p].before) + 1)..Len(dir) :
    LET head == NameHead(dl[p].fullName)
        rest == NameRest(dl[p].fullName)
    IN  /\ NonEmpty(dir[k].first) /\ NonEmpty(dir[k].last)
        /\ dir[k].first = (IF NonEmpty(head) THEN head ELSE <<"Member">>)
        /\ dir[k].last = (IF NonEmpty(rest) THEN Squeeze(rest) ELSE <<"Account">>)

\* a customer was created from a name whose remainder holds a whitespace run
C27_Witness ==
  \E p \in Procs :
    /\ dl[p].n > 0 /\ Len(dir) > Len(dl[p].before)
    /\ NameRest(dl[p].fullName) # Squeeze(NameRest(dl[p].fullName))
    /\ dir[Len(dir)].first = <<"A">> /\ dir[Len(dir)].last = <<"A", " ", "A">>

\* C25 (as claimed): when two purchase deliveries for the same email, which
\* had no customer yet, have both finished, the directory holds at most one
\* record of that email (here even with every upstream call of both answered
\* 2xx with a usable body).
C25_NoDuplicateCustomer ==
  (/\ \A p \in Procs :
        /\ Done(dl[p]) /\ Verified(dl[p]) /\ IsPurchase(dl[p].type)
        /\ NonEmpty(dl[p].email) /\ AllGood(dl[p].calls)
   /\ ResolvedEmail(dl[1]) = ResolvedEmail(dl[2])
   /\ \E p \in Procs : Matching(dl[p].before, ResolvedEmail(dl[p])) = <<>>) =>
    Len(Matching(dir, ResolvedEmail(dl[1]))) <= 1


IsRemoval(type) == type \in {SUB_DELETED, INVOICE_FAILED}

\* C26: no step removes a directory customer or changes a record's id or
\* email: the directory only grows; and a step of a subscription-ended or
\* payment-failed delivery changes nothing of the directory but the group of
\* a record, which it sets to NO_GROUP.
C26_NeverDeletes ==
  [][/\ Len(dir') >= Len(dir)
     /\ \A k \in 1..Len(dir) :
          dir'[k].id = dir[k].id /\ dir'[k].email = dir[k].email
     /\ \A p \in Procs :
          (dl'[p] # dl[p] /\ IsRemoval(dl[p].type)) =>
            /\ Len(dir') = Len(dir)
            /\ \A k \in 1..Len(dir) :
                 dir'[k] # dir[k] => dir'[k] = [dir[k] EXCEPT !.group = NO_GROUP]]_vars

\* a finished removal cleared the group of a customer who is still on record
C26_Witness ==
  \E p \in Procs :
    /\ Done(dl[p]) /\ IsRemoval(dl[p].type) /\ dl[p].status = 200
    /\ Len(dir) = Len(dl[p].before)
    /\ \E k \in 1..Len(dir) :
         /\ dl[p].before[k].group # NO_GROUP
         /\ dir[k] = [dl[p].before[k] EXCEPT !.group = NO_GROUP]


\* the signature the relay expects for the request it is serving
RelaySig(r) ==
  HexHmac(<<DecodeURIComponent(r.req.u), ParseInt(r.req.exp, 0)>>, TokenKey(r.e.secret))

\* C28 (as claimed): the relay fetches the upstream resource only for a
\* request that carries the HMAC of url|expiry under the server secret and
\* whose expiry has not passed.
C28_FetchOnlyIfSigned ==
  relay.fetched # <<>> =>
    /\ relay.req.sig = <<RelaySig(relay)>>
    /\ relay.now <= ParseInt(relay.req.exp, 0)


\* the platform accepted a group update of delivery d
Wrote(d) ==
  \E i \in 1..Len(d.calls) : d.calls[i].call \in {"patch", "put"} /\ IsOk(d.calls[i].status)

\* the Stripe customer's email, as the lookups normalize it
CustomerKey == NormalizeEmail(stripeCust.email)

\* delivery p is a purchase and delivery q a subscription-ended event of the
\* Stripe customer, who was on record before either began; both have finished
PurchaseAndCancel(p, q) ==
  /\ Done(dl[p]) /\ Verified(dl[p]) /\ IsPurchase(dl[p].type)
  /\ NormalizeEmail(EventEmail(dl[p].req)) = CustomerKey
  /\ Done(dl[q]) /\ Verified(dl[q]) /\ dl[q].type = SUB_DELETED
  /\ Matching(dl[p].before, CustomerKey) # <<>>
  /\ Matching(dl[q].before, CustomerKey) # <<>>

\* C29 (as claimed): after a purchase (group g) and a subscription-ended
\* delivery for the same existing customer have both finished, the
\* customer's group is g or NO_GROUP.
C29_GroupOrSentinel ==
  \A p, q \in Procs :
    PurchaseAndCancel(p, q) =>
      Matching(dir, CustomerKey)[1].group \in {EventGroup(dl[p].req), NO_GROUP}

\* C29 (amended): ... the customer's group is g only if the platform accepted
\* the purchase's group update, NO_GROUP only if it accepted the
\* cancellation's, and the group the customer had before when it accepted
\* neither.
C29_GroupFromAcceptedUpdate ==
  \A p, q \in Procs :
    PurchaseAndCancel(p, q) =>
      LET before == Matching(dl[p].before, CustomerKey)[1].group IN
      Matching(dir, CustomerKey)[1].group \in
        {x \in {EventGroup(dl[p].req)} : Wrote(dl[p])}
        \cup {x \in {NO_GROUP} : Wrote(dl[q])}
        \cup {x \in {before} : ~Wrote(dl[p]) /\ ~Wrote(dl[q])}

\* both updates were accepted and the purchase's was the last
C29_Witness ==
  \E p, q \in Procs :
    /\ PurchaseAndCancel(p, q) /\ Wrote(dl[p]) /\ Wrote(dl[q])
    /\ dl[p].status = 200 /\ dl[q].status = 200
    /\ Matching(dir, CustomerKey)[1].group = EventGroup(dl[p].req)


\* C30: a step of a delivery resolved to email e changes the group only of
\* records whose email is e up to case, and adds only records of email e;
\* every other record is left as it was, whatever the other delivery does in
\* between.
C30_OnlyOwnCustomer ==
  [][\A p \in Procs :
       dl'[p] # dl[p] =>
         /\ Len(dir') >= Len(dir)
         /\ \A k \in 1..Len(dir) :
              dir'[k] # dir[k] => ToLower(dir[k].email) = ResolvedEmail(dl[p])
         /\ \A k \in (Len(dir) + 1)..Len(dir') :
              ToLower(dir'[k].email) = ResolvedEmail(dl[p])]_vars

\* a finished delivery changed the group of its own customer while another
\* customer stayed on record as before
C30_Witness ==
  \E p \in Procs :
    /\ Done(dl[p]) /\ dl[p].status = 200 /\ Wrote(dl[p])
    /\ Len(dl[p].before) > 1
    /\ \E j, k \in 1..Len(dl[p].before) :
         /\ ToLower(dir[j].email) = ResolvedEmail(dl[p])
         /\ dir[j].group # dl[p].before[j].group
         /\ ToLower(dir[k].email) # ResolvedEmail(dl[p])
         /\ dir[k] = dl[p].before[k]


\* a lookup of delivery d was answered 2xx while the directory held no record
\* of d's email
LookupFoundNobody(d) ==
  /\ \E i \in 1..Len(d.calls) :
       d.calls[i].call \in {"lookup_v3", "lookup_v2"} /\ IsOk(d.calls[i].status)
  /\ Matching(d.before, ResolvedEmail(d)) = <<>>

\* C31: a subscription-ended or payment-failed delivery issues no create
\* call and adds no record; and once its lookup has found no customer for the
\* email it has issued no group update, left the directory as it was and
\* answered 200.
C31_RemovalNeverCreates ==
  \A p \in Procs :
    (Verified(dl[p]) /\ IsRemoval(dl[p].type)) =>
      /\ TimesIssued(dl[p], "create_v3") = 0
      /\ TimesIssued(dl[p], "create_v2") = 0
      /\ Len(dir) = Len(dl[p].before)
      /\ LookupFoundNobody(dl[p]) =>
           /\ Done(dl[p]) /\ dl[p].status = 200 /\ dl[p].body = OkBody
           /\ TimesIssued(dl[p], "patch") = 0
           /\ TimesIssued(dl[p], "put") = 0
           /\ dir = dl[p].before

\* a payment-failed delivery looked its email up in a directory of other
\* customers and found nobody
C31_Witness ==
  \E p \in Procs :
    /\ Verified(dl[p]) /\ dl[p].type = INVOICE_FAILED
    /\ LookupFoundNobody(dl[p]) /\ Done(dl[p])
    /\ Len(dl[p].before) > 1


\* delivery d is a purchase with an email whose prices resolved to no group
UnmappedPurchase(d) ==
  /\ Verified(d) /\ IsPurchase(d.type) /\ NonEmpty(d.email)
  /\ ~Truthy(d.target) /\ (Done(d) \/ d.pc \in PlatformCalls)

PlatformFailed(d) ==
  \E i \in 1..Len(d.calls) : d.calls[i].call \in PlatformCalls /\ ~d.calls[i].good

\* no group update, the records on file untouched, every new record of the
\* purchaser's email and without a group
UnmappedFrame(d) ==
  /\ TimesIssued(d, "patch") = 0 /\ TimesIssued(d, "put") = 0
  /\ Len(dir) >= Len(d.before)
  /\ \A k \in 1..Len(d.before) : dir[k] = d.before[k]
  /\ \A k \in (Len(d.before) + 1)..Len(dir) :
       dir[k].group = NO_GROUP /\ dir[k].email = ResolvedEmail(d)

C33_AtMostOneCreate ==
  \A p \in Procs :
    dl[p].n > 0 =>
      /\ Len(dir) <= Len(dl[p].before) + 1
      /\ \A i \in 1..Len(dl[p].calls) :
           (dl[p].calls[i].call = "create_v3" /\ IsOk(dl[p].calls[i].status)) =>
             TimesIssued(dl[p], "create_v2") = 0


\* the window the relay is configured with, in seconds: STREAM_MAX_MIN
\* minutes (70 when the variable holds no number) plus 30 seconds
ConfiguredWindow(e) ==
  (IF e.maxMin.present /\ e.maxMin.num THEN e.maxMin.val ELSE 70) * 60 + 30

\* the request in service carries an expiry that has passed, or one that
\* lies beyond the configured window
OutsideWindow(r) ==
  LET exp == ParseInt(r.req.exp, 0) IN
  /\ r.pc # "idle" /\ exp # NaN
  /\ \/ r.now > exp
     \/ exp - r.now > ConfiguredWindow(r.e)

\* the request got as far as the checks of the expiry: a GET that passed the
\* origin check and carries a decodable u and a non-zero exp
ReachedExpiryCheck(r) ==
  /\ r.req.method = "GET"
  /\ ~(r.e.origin # "" /\ r.req.origin # "" /\ r.req.origin # r.e.origin)
  /\ ~Malformed(r.req.u) /\ r.req.u # <<>>
  /\ ParseInt(r.req.exp, 0) # 0

\* C34 (as claimed): a request whose expiry has passed, or lies further ahead
\* than the configured window, never causes a fetch, and is answered 403.
C34_NoFetchOutsideWindow ==
  OutsideWindow(relay) =>
    /\ relay.fetched = <<>>
    /\ ReachedExpiryCheck(relay) => relay.status = 403


\* the notes on file were rewritten by an accepted update
NotesSaved(c) ==
  /\ c.pc = "done" /\ c.status = 200 /\ c.req.method = "POST"
  /\ c.calls[Len(c.calls)] = [call |-> "update", ok |-> TRUE]

\* notes holds a tagged segment; the text around its first one
HasSegment(notes) ==
  LET i == IndexOf(notes, TAG_START, 1)
  IN  i > 0 /\ IndexOf(notes, TAG_END, i + Len(TAG_START)) > 0
Outside(notes) ==
  LET i == IndexOf(notes, TAG_START, 1)
      j == IndexOf(notes, TAG_END, i + Len(TAG_START))
  IN  IF HasSegment(notes)
      THEN SubSeq(notes, 1, i - 1) \o SubSeq(notes, j + Len(TAG_END), Len(notes))
      ELSE notes

\* C35 (as claimed): the categories read back from the notes written by
\* setCatsInNotes are the categories that were written, and the text around
\* the tagged segment is the prior text (followed by a line feed when the
\* segment was appended to it).
C35_NotesRoundTrip ==
  NotesSaved(cat) =>
    /\ cat.store.notes = setCatsInNotes(cat.cust.notes, cat.unique)
    /\ extractCatsFromNotes(cat.store.notes) = cat.unique
    /\ Outside(cat.store.notes) =
         (IF HasSegment(cat.cust.notes) THEN Outside(cat.cust.notes)
          ELSE IF cat.cust.notes = <<>> THEN <<>>
          ELSE cat.cust.notes \o <<"\n">>)


\* the number of distinct categories of the request once trimmed and
\* lower-cased, empty ones dropped
DistinctCats(rq) ==
  Cardinality({ToLower(Trim(rq.categories[i])) : i \in 1..Len(rq.categories)} \ {<<>>})

\* the update call has been issued
UpdateIssued(c) ==
  c.pc = "update" \/ \E i \in 1..Len(c.calls) : c.calls[i].call = "update"

\* a POST got the customer's record (or none) back from getCustomerById
GroupRead(c) ==
  /\ c.req.method = "POST" /\ Len(c.calls) > 0
  /\ \E i \in 1..Len(c.calls) : c.calls[i] = [call |-> "get", ok |-> TRUE]

\* C36: the update call is issued only for a POST whose number of distinct
\* normalized categories equals the limit of the group read for the customer;
\* a POST that gets as far as the limit with any other number is answered 400
\* without an update call.
C36_LimitEnforced ==
  /\ UpdateIssued(cat) =>
       /\ GroupRead(cat)
       /\ DistinctCats(cat.req) = limitForGroup(cat.cust.group)
       /\ cat.cust.found => cat.cust.group = cat.store.group
  /\ (GroupRead(cat) /\ DistinctCats(cat.req) # limitForGroup(cat.cust.group)) =>
       /\ cat.pc = "done" /\ cat.status = 400
       /\ ~UpdateIssued(cat)
       /\ cat.cust.found => cat.store.notes = cat.cust.notes

\* three distinct categories were saved for a customer of group 3
C36_Witness ==
  /\ NotesSaved(cat) /\ cat.cust.found /\ cat.store.group = 3
  /\ DistinctCats(cat.req) = 3

====
